---- MODULE Spec2Model ----
(***************************************************************************)
(* A model of the memory-operation optimizer of C2's sea-of-nodes IR       *)
(* (src/hotspot/share/opto/memnode.cpp): MergeMemNode, InitializeNode,     *)
(* and the Load/Store forwarding rules.  Every component has its own       *)
(* specification (SpecMM, SpecInit, SpecLoad); the variables of the        *)
(* other components are held at their idle values.                         *)
(***************************************************************************)
EXTENDS Integers, Sequences, FiniteSets, TLC

(***************************************************************************)
(* Bounds of the model.                                                    *)
(***************************************************************************)
\* number of operations applied to the MergeMem graph after it is built
MaxOps == 2
\* fuel of the Ideal loop inside PhaseGVN::transform
MaxTransform == 6
\* number of memory states the parser puts above a load
MaxChain == 2
\* number of inputs an InitializeNode holds before it stops capturing
MaxCaptured == 4

(***************************************************************************)
(* Program constants.                                                      *)
(***************************************************************************)
AliasIdxTop == 1
AliasIdxBot == 2
AliasIdxRaw == 3
OffsetBot == -2000000001
BytesPerInt == 4
BytesPerLong == 8
HeapWordSize == 8
MaxVectorSize == 16
CycleLimit == 50
minimum_header_size == 12
TrackedInitializationLimit == 6
InitArrayShortSize == 0
\* size_in_bytes of the allocation "A"
ObjectSize == 56

VARIABLES
  mm,        \* MergeMem graph: node -> its input array in(1..req-1)
  mmOps,     \* number of operations applied so far
  mmLast,    \* the last operation: what it was, on which node, what it reported
  mmDirty,   \* merges an outside node replacement rewrote since their last Ideal
  ldMem,     \* memory chain above the load: ldMem[1] is the load's memory input
  ld,        \* the load
  ldRes,     \* the last operation on the load and what it returned
  initNode,  \* the InitializeNode of the allocation "A": [complete, stores]
  initFlags, \* the flags of the VM and of the platform
  initLast,  \* the last operation on the InitializeNode and what it returned
  stMem,     \* memory chain under a store: [n, outcnt] per state, nearest first
  stTop,     \* the store made over stMem
  stRes,     \* the last operation on the store and what it returned
  mgChain,   \* chain of primitive stores to an array, latest first
  mgPlat,    \* the platform: little-endian or not, ReverseBytes matched or not
  mgRes,     \* the last run of MergePrimitiveStores and what it returned
  worklist,  \* the IGVN worklist: the nodes on it
  icNode,    \* a memory node: what its control, memory and address inputs are
  icRes,     \* the last Ideal_common on the memory node and what it returned
  icPushes   \* number of pushes by other transformations so far

mmVars == <<mm, mmOps, mmLast, mmDirty>>

ldVars == <<ldMem, ld, ldRes>>

initVars == <<initNode, initFlags, initLast>>

mgVars == <<mgChain, mgPlat, mgRes>>
icVars == <<worklist, icNode, icRes, icPushes>>
stVars == <<stMem, stTop, stRes, mgVars, icVars>>

vars == <<mm, mmOps, mmLast, mmDirty, ldMem, ld, ldRes, initNode, initFlags, initLast,
          stMem, stTop, stRes, mgChain, mgPlat, mgRes, worklist, icNode, icRes,
          icPushes>>

(***************************************************************************)
(* Memory nodes above a load or inside an InitializeNode.  A node is a     *)
(* record: a Store (base and offset of its address as                      *)
(* AddPNode::Ideal_base_and_offset finds them, 'cast' telling apart two    *)
(* address nodes over the same uncast base, opcode, value), the memory     *)
(* projection of an Initialize ("InitProj", with the state of the          *)
(* Initialize), the memory projection of an Allocate ("AllocProj", the     *)
(* zero memory of the fresh object), top, or a node the optimizer does not *)
(* look through ("Other").  A value is a constant (lo = hi) or a node of   *)
(* integer type lo..hi.                                                    *)
(***************************************************************************)
null == "null"

NoVal == [con |-> FALSE, lo |-> 0, hi |-> -1]
NoInit == [complete |-> FALSE, stores |-> <<>>]

intcon(c) == [con |-> TRUE, lo |-> c, hi |-> c]
NonCon(lo, hi) == [con |-> FALSE, lo |-> lo, hi |-> hi]

StoreNode(base, off, opc, val, cast) ==
  [kind |-> "Store", base |-> base, off |-> off, opc |-> opc, val |-> val,
   cast |-> cast, init |-> NoInit, under |-> <<>>]

ProjNode(kind, alloc, init) ==
  [kind |-> kind, base |-> alloc, off |-> 0, opc |-> "Proj", val |-> NoVal,
   cast |-> FALSE, init |-> init, under |-> <<>>]

zero_memory(alloc) == ProjNode("AllocProj", alloc, NoInit)
C_top == ProjNode("top", null, NoInit)
NullNode == ProjNode("null", null, NoInit)

memory_size(opc) ==
  CASE opc \in {"StoreB", "LoadB", "LoadUB"} -> 1
    [] opc \in {"StoreC", "LoadS", "LoadUS"} -> 2
    [] opc \in {"StoreI", "LoadI"} -> BytesPerInt
    [] opc \in {"StoreL", "LoadL"} -> BytesPerLong

store_Opcode(opc) ==
  CASE opc \in {"LoadB", "LoadUB"} -> "StoreB"
    [] opc \in {"LoadS", "LoadUS"} -> "StoreC"
    [] opc = "LoadI" -> "StoreI"
    [] opc = "LoadL" -> "StoreL"
    [] OTHER -> opc

\* the declared type of a load: TypeInt::BYTE, UBYTE, SHORT, CHAR, INT
LoadType(opc) ==
  CASE opc = "LoadB"  -> [lo |-> -128, hi |-> 127]
    [] opc = "LoadUB" -> [lo |-> 0, hi |-> 255]
    [] opc = "LoadS"  -> [lo |-> -32768, hi |-> 32767]
    [] opc = "LoadUS" -> [lo |-> 0, hi |-> 65535]
    [] OTHER          -> [lo |-> -2147483647 - 1, hi |-> 2147483647]

higher_equal(t, u) == u.lo <= t.lo /\ t.hi <= u.hi

MAX_STORE == IF BytesPerLong > MaxVectorSize THEN BytesPerLong ELSE MaxVectorSize

(***************************************************************************)
(* Base pointers: "A" and "B" are the results of two Allocate nodes, "P"   *)
(* an incoming parameter, "K1" and "K2" constant oops, "X" an oop computed *)
(* after the allocations, "R" a raw pointer, "none" an address             *)
(* Ideal_base_and_offset cannot take apart.                                *)
(***************************************************************************)
Allocs == {"A", "B"}

Ideal_allocation(base) == IF base \in Allocs THEN base ELSE null

check_if_adr_maybe_raw(base) == base = "R"

base_is_Con(base) == base \in {"K1", "K2"}

\* the controls of p predate the allocation a: constants and parameters
all_controls_dominate(p, a) == p \in {"P", "K1", "K2"}

detect_ptr_independence(p1, a1, p2, a2) ==
  IF a1 = null /\ a2 = null THEN p1 # p2 /\ base_is_Con(p1) /\ base_is_Con(p2)
  ELSE IF a1 # null /\ a2 # null THEN a1 # a2
  ELSE IF a1 # null THEN all_controls_dominate(p2, a1)
  ELSE all_controls_dominate(p1, a2)

(***************************************************************************)
(* InitializeNode::captured_store_insertion_point and find_captured_store  *)
(* over the state [complete, stores] of an InitializeNode; stores[k] is    *)
(* in(RawStores + k - 1).  FAIL is 0, i > 0 the position of the store at   *)
(* 'start', -i the position where it belongs.                              *)
(***************************************************************************)
get_store_offset(st) ==
  IF st.kind # "Store" THEN -1
  ELSE IF st.base = "none" THEN -1
  ELSE IF st.off < 0 THEN -1
  ELSE st.off

RECURSIVE insertion_point_from(_, _, _, _)
insertion_point_from(stores, i, start, size_in_bytes) ==
  IF i > Len(stores) THEN -i
  ELSE LET st     == stores[i]
           st_off == get_store_offset(st)
       IN IF st_off < 0
          THEN (IF st.kind # "AllocProj" THEN 0
                ELSE insertion_point_from(stores, i + 1, start, size_in_bytes))
          ELSE IF st_off > start
          THEN (IF st_off < start + size_in_bytes THEN 0 ELSE -i)
          ELSE IF st_off < start
          THEN (IF size_in_bytes # 0 /\ start < st_off + MAX_STORE /\
                   start < st_off + memory_size(st.opc)
                THEN 0
                ELSE insertion_point_from(stores, i + 1, start, size_in_bytes))
          ELSE (IF size_in_bytes # 0 /\ memory_size(st.opc) # size_in_bytes
                THEN 0 ELSE i)

captured_store_insertion_point_late(init, start, size_in_bytes) ==
  IF start < minimum_header_size THEN 0
  ELSE IF start >= TrackedInitializationLimit * HeapWordSize THEN 0
  ELSE insertion_point_from(init.stores, 1, start, size_in_bytes)

captured_store_insertion_point(init, start, size_in_bytes) ==
  IF init.complete THEN 0
  ELSE IF start < minimum_header_size THEN 0
  ELSE IF start >= TrackedInitializationLimit * HeapWordSize THEN 0
  ELSE insertion_point_from(init.stores, 1, start, size_in_bytes)

find_captured_store_zeroOnFail(init, alloc, start, size_in_bytes) ==
  LET i == captured_store_insertion_point(init, start, size_in_bytes)
  IN IF i <= 0 THEN zero_memory(alloc) ELSE init.stores[i]

find_captured_store(init, alloc, start, size_in_bytes) ==
  LET i == captured_store_insertion_point(init, start, size_in_bytes)
  IN IF i = 0 THEN NullNode
     ELSE IF i < 0 THEN zero_memory(alloc)
     ELSE init.stores[i]

(***************************************************************************)
(* MemNode::find_previous_store.  The chain is the sequence of memory      *)
(* states above the load: chain[1] is the load's memory input and          *)
(* chain[k+1] the memory input of chain[k]; above the last one is a state  *)
(* the walk does not recognize.  The result is the node returned (NullNode *)
(* for "no answer"), its position, the positions walked past and the       *)
(* number of memory states examined.  A chain that ends in LoopBack(k) is  *)
(* cyclic: the memory input of the state before the LoopBack is the k-th   *)
(* state from the end of the chain.                                        *)
(***************************************************************************)
LoopBack(k) == [ProjNode("LoopBack", null, NoInit) EXCEPT !.off = k]

\* the position of mem->in(MemNode::Memory) for the state at position i
mem_in(chain, i) ==
  IF i < Len(chain) /\ chain[i + 1].kind = "LoopBack"
  THEN Len(chain) - chain[i + 1].off
  ELSE i + 1

cycle_limit_hit_late(cnt) == cnt < 0

\* if (--cnt < 0) break, for cnt before the decrement
cycle_limit_hit(cnt) == cnt - 1 < 0

OffsetsIndependent_noSize(st_offset, st_size, offset, size_in_bytes) ==
  st_offset >= offset + size_in_bytes \/ st_offset <= offset - 1

OffsetsIndependent_loadSize(st_offset, st_size, offset, size_in_bytes) ==
  st_offset >= offset + size_in_bytes \/ st_offset <= offset - size_in_bytes

OffsetsIndependent(st_offset, st_size, offset, size_in_bytes) ==
  \/ st_offset >= offset + size_in_bytes
  \/ st_offset <= offset - MAX_STORE
  \/ st_offset <= offset - st_size

is_exact_match_offsetOnly(l, mem) == mem.off = l.off

\* (b) the bases and the offsets agree
is_exact_match(l, mem) == mem.base = l.base /\ mem.off = l.off

\* what the body of the loop does with the memory state mem: "skip" is
\* continue with the memory input of mem, "found" return mem, "bail" break
fps_step(l, mem) ==
  IF mem.kind = "Store"
  THEN IF mem.base = "none" THEN "bail"
       ELSE IF (check_if_adr_maybe_raw(l.base) \/ check_if_adr_maybe_raw(mem.base))
               /\ mem.base # l.base
       THEN "bail"
       ELSE IF mem.off # l.off /\ mem.off # OffsetBot /\
               OffsetsIndependent(mem.off, memory_size(mem.opc), l.off,
                                  memory_size(l.opc))
       THEN "skip"
       ELSE IF mem.base # l.base /\
               detect_ptr_independence(l.base, Ideal_allocation(l.base),
                                       mem.base, Ideal_allocation(mem.base))
       THEN "skip"
       ELSE IF is_exact_match(l, mem)
       THEN "found"
       ELSE "bail"
  ELSE IF mem.kind = "InitProj"
  THEN IF mem.base = null THEN "bail"
       ELSE IF Ideal_allocation(l.base) = mem.base
       THEN "found"
       ELSE IF Ideal_allocation(l.base) # null \/
               all_controls_dominate(l.base, mem.base)
       THEN "skip"
       ELSE "bail"
  ELSE "bail"

RECURSIVE fps_walk(_, _, _, _, _)
fps_walk(l, chain, i, cnt, walked) ==
  IF cycle_limit_hit(cnt)
  THEN [node |-> NullNode, at |-> 0, walked |-> walked, examined |-> CycleLimit - cnt]
  ELSE IF i <= Len(chain) /\ fps_step(l, chain[i]) = "skip"
  THEN fps_walk(l, chain, mem_in(chain, i), cnt - 1, walked \cup {i})
  ELSE IF i <= Len(chain) /\ fps_step(l, chain[i]) = "found"
  THEN [node |-> chain[i], at |-> i, walked |-> walked,
        examined |-> CycleLimit - (cnt - 1)]
  ELSE [node |-> NullNode, at |-> 0, walked |-> walked,
        examined |-> CycleLimit - (cnt - 1)]

find_previous_store(l, chain) ==
  IF l.off = OffsetBot
  THEN [node |-> NullNode, at |-> 0, walked |-> {}, examined |-> 0]
  ELSE fps_walk(l, chain, 1, CycleLimit, {})

(***************************************************************************)
(* MemNode::can_see_stored_value: the value a load sees in the memory      *)
(* state st, NoVal when it sees none.                                      *)
(***************************************************************************)
SeeStore_anyOpcode(l, st) ==
  IF (st.base # l.base \/ st.off # l.off \/ st.cast # l.cast) /\
     (l.base = "none" \/ st.base = "none" \/ st.base # l.base \/ l.off # st.off \/
      l.off = OffsetBot)
  THEN NoVal
  ELSE st.val

\* st is a Store
SeeStore(l, st) ==
  IF (st.base # l.base \/ st.off # l.off \/ st.cast # l.cast) /\
     (l.base = "none" \/ st.base = "none" \/ st.base # l.base \/ l.off # st.off \/
      l.off = OffsetBot)
  THEN NoVal
  ELSE IF store_Opcode(l.opc) # st.opc THEN NoVal
  ELSE st.val

SeeZero_anyOffset(l, st) ==
  IF st.base = Ideal_allocation(l.base) THEN intcon(0) ELSE NoVal

\* st is the memory projection of an Allocate: fresh memory holds zero.  The
\* memory input of the load is st itself or the projection of the Initialize
\* whose captured stores led to st, never the projection of a MemBar, so
\* find_array_copy_clone finds no ArrayCopy whatever ReduceBulkZeroing is.
SeeZero(l, st) ==
  IF st.base = Ideal_allocation(l.base) /\ l.off >= minimum_header_size
  THEN intcon(0) ELSE NoVal

SeeNode(l, st) ==
  IF st.kind = "Store" THEN SeeStore(l, st)
  ELSE IF st.kind = "AllocProj" THEN SeeZero(l, st)
  ELSE NoVal

can_see_stored_value(l, st) ==
  IF st.kind = "InitProj" /\ st.base # null /\ st.base = Ideal_allocation(l.base) /\
     find_captured_store(st.init, st.base, l.off, memory_size(l.opc)) # NullNode
  THEN SeeNode(l, find_captured_store(st.init, st.base, l.off, memory_size(l.opc)))
  ELSE SeeNode(l, st)

(***************************************************************************)
(* LoadNode::Identity: the node that replaces the load; self = TRUE is the *)
(* load itself.                                                            *)
(***************************************************************************)
KeepLoad == [self |-> TRUE, val |-> NoVal]

LoadIdentity_unpinned(l, mem) ==
  LET value == can_see_stored_value(l, mem)
  IN IF value # NoVal
     THEN IF memory_size(l.opc) < BytesPerInt /\ ~higher_equal(value, LoadType(l.opc))
          THEN KeepLoad
          ELSE [self |-> FALSE, val |-> value]
     ELSE KeepLoad

LoadIdentity(l, mem) ==
  LET value == can_see_stored_value(l, mem)
  IN IF value # NoVal
     THEN IF memory_size(l.opc) < BytesPerInt /\ ~higher_equal(value, LoadType(l.opc))
          THEN KeepLoad
          ELSE IF ~l.pinned \/ value.con
          THEN [self |-> FALSE, val |-> value]
          ELSE KeepLoad
     ELSE KeepLoad

(***************************************************************************)
(* 32-bit integer arithmetic of the constant folding in Value.             *)
(***************************************************************************)
RECURSIVE Pow2(_)
Pow2(n) == IF n = 0 THEN 1 ELSE 2 * Pow2(n - 1)

\* bit i (0..31) of the two's complement representation of x
Bit(x, i) == IF i = 31 THEN (IF x < 0 THEN 1 ELSE 0) ELSE (x \div Pow2(i)) % 2

\* the int with the given bits b[0..31]
RECURSIVE FromBits(_, _)
FromBits(b, i) ==
  IF i = 31 THEN (IF b[31] = 1 THEN (-Pow2(30)) - Pow2(30) ELSE 0)
  ELSE b[i] * Pow2(i) + FromBits(b, i + 1)

\* con << n
LShiftI(x, n) == FromBits([i \in 0 .. 31 |-> IF i < n THEN 0 ELSE Bit(x, i - n)], 0)

\* con >>> n: zero fill
URShiftI(x, n) == FromBits([i \in 0 .. 31 |-> IF i + n > 31 THEN 0 ELSE Bit(x, i + n)], 0)

\* con >> n: sign fill
RShiftI(x, n) ==
  FromBits([i \in 0 .. 31 |-> IF i + n > 31 THEN Bit(x, 31) ELSE Bit(x, i + n)], 0)

\* con & mask
AndI(x, mask) == FromBits([i \in 0 .. 31 |-> Bit(x, i) * Bit(mask, i)], 0)

(***************************************************************************)
(* LoadNode::Value and the Value of the sub-word loads: the type of the    *)
(* load, a singleton when it folds to a constant.                          *)
(***************************************************************************)
LoadNodeValue(l, mem) ==
  LET value == can_see_stored_value(l, mem)
  IN IF value # NoVal /\ value.con THEN [lo |-> value.lo, hi |-> value.hi]
     ELSE LoadType(l.opc)

Truncate(opc, con) ==
  CASE opc = "LoadB"  -> RShiftI(LShiftI(con, 24), 24)
    [] opc = "LoadUB" -> AndI(con, 255)
    [] opc = "LoadUS" -> AndI(con, 65535)
    [] opc = "LoadS"  -> RShiftI(LShiftI(con, 16), 16)

\* the Value of a sub-word load without the override of its class
LoadValue_notOverridden(l, mem) == LoadNodeValue(l, mem)

LoadValue(l, mem) ==
  LET value == can_see_stored_value(l, mem)
  IN IF l.opc \in {"LoadB", "LoadUB", "LoadUS", "LoadS"} /\ value # NoVal /\ value.con /\
        ~higher_equal(value, LoadType(l.opc))
     THEN [lo |-> Truncate(l.opc, value.lo), hi |-> Truncate(l.opc, value.lo)]
     ELSE LoadNodeValue(l, mem)

\* the idle state of the load machines
NoLoad == [base |-> "none", off |-> OffsetBot, cast |-> FALSE, opc |-> "LoadI",
           pinned |-> FALSE]

NoFps == [node |-> NullNode, at |-> 0, walked |-> {}, examined |-> 0]

NoRes == [op |-> "none", fps |-> NoFps, node |-> [self |-> TRUE, val |-> NoVal],
          type |-> [lo |-> 0, hi |-> -1]]

LdIdle == ldMem = <<>> /\ ld = NoLoad /\ ldRes = NoRes

NoInitLast ==
  [op |-> "none", ok |-> FALSE, fits |-> FALSE, ip |-> 0, before |-> <<>>,
   tiled |-> <<>>, zeroed |-> {}]
InitIdle ==
  /\ initNode = NoInit
  /\ initFlags = [ReduceFieldZeroing |-> TRUE, ReduceBulkZeroing |-> TRUE,
                  ZeroTLAB |-> FALSE, little |-> TRUE, simple64 |-> TRUE]
  /\ initLast = NoInitLast

\* the idle state of the store machines
NoStRes ==
  [op |-> "none", before |-> <<>>, removed |-> 0, progress |-> FALSE,
   captured |-> FALSE, result |-> "this", rule |-> "none", merged |-> NullNode,
   ctl |-> "none"]
NoMgRes ==
  [op |-> "none", at |-> 0, order |-> "Unknown", found |-> 0, size |-> 0,
   merged |-> NullNode]
MgIdle ==
  /\ mgChain = <<>>
  /\ mgPlat = [little |-> TRUE, reverse |-> TRUE]
  /\ mgRes = NoMgRes
NoIcNode == [ctl |-> "none", mem |-> "none", adr |-> "none", unsafe |-> FALSE]
NoIcRes ==
  [op |-> "none", result |-> "nullptr", pushed |-> FALSE, waits |-> {}, seen |-> {},
   before |-> NoIcNode]
IcIdle == worklist = {} /\ icNode = NoIcNode /\ icRes = NoIcRes /\ icPushes = 0
StIdle == stMem = <<>> /\ stTop = NullNode /\ stRes = NoStRes /\ MgIdle /\ IcIdle

(***************************************************************************)
(* MergeMemNode                                                            *)
(***************************************************************************)
MergeMems == {"M1", "M2", "M3"}
PlainMem  == {"W", "X"}
top       == "top"
MemNodes  == MergeMems \cup PlainMem \cup {top}

\* the alias indexes the merges are asked about: Raw and one index beyond the
\* length a MergeMem is constructed with
AliasIdxs == {AliasIdxRaw, AliasIdxRaw + 1}

is_MergeMem(n) == n \in MergeMems

\* the input array f[1..n] as a sequence
Inputs(f, n) == SubSeq(f, 1, n)

make_empty_memory == top

empty_memory(g, this) == g[this][AliasIdxTop]

req(g, this) == Len(g[this]) + 1

in(g, this, i) == g[this][i]

base_memory(g, this) == g[this][AliasIdxBot]

set_req(g, this, i, n) ==
  LET ins == g[this]
  IN [g EXCEPT ![this] =
        Inputs([k \in 1 .. Len(ins) |-> IF k = i THEN n ELSE ins[k]], Len(ins))]

\* add_req(empty_mem) until req() reaches new_len
add_req_upto(g, this, new_len) ==
  IF req(g, this) >= new_len THEN g
  ELSE LET ins == g[this]
       IN [g EXCEPT ![this] =
             Inputs([k \in 1 .. (new_len - 1) |->
                       IF k <= Len(ins) THEN ins[k] ELSE make_empty_memory],
                    new_len - 1)]

memory_at(g, this, alias_idx) ==
  LET n == IF alias_idx < req(g, this) THEN in(g, this, alias_idx)
           ELSE empty_memory(g, this)
  IN IF n = empty_memory(g, this) THEN base_memory(g, this) ELSE n

\* set_memory_at that never grows the node
set_memory_at_nogrow(g, this, alias_idx, n0) ==
  LET empty_mem == empty_memory(g, this)
      n         == IF n0 = base_memory(g, this) THEN empty_mem ELSE n0
  IN IF req(g, this) < alias_idx + 1 THEN g
     ELSE set_req(g, this, alias_idx, n)

\* set_memory_at without "collapse default"
set_memory_at_nocollapse(g, this, alias_idx, n0) ==
  LET empty_mem == empty_memory(g, this)
      need_req  == alias_idx + 1
  IN IF req(g, this) < need_req /\ n0 = empty_mem THEN g
     ELSE set_req(add_req_upto(g, this, need_req), this, alias_idx, n0)

set_memory_at(g, this, alias_idx, n0) ==
  LET empty_mem == empty_memory(g, this)
      n         == IF n0 = base_memory(g, this) THEN empty_mem ELSE n0
      need_req  == alias_idx + 1
  IN IF req(g, this) < need_req /\ n = empty_mem THEN g
     ELSE set_req(add_req_upto(g, this, need_req), this, alias_idx, n)

set_base_memory(g, this, new_base) ==
  LET empty_mem == empty_memory(g, this)
      g1        == set_req(g, this, AliasIdxBot, new_base)
  IN IF new_base # empty_mem
     THEN LET ins == g1[this]
          IN [g1 EXCEPT ![this] =
                Inputs([i \in 1 .. Len(ins) |->
                          IF i >= AliasIdxRaw /\ ins[i] = new_base
                          THEN empty_mem ELSE ins[i]],
                       Len(ins))]
     ELSE g1

\* the finite support of 'other' beyond my req()
grow_to_match(g, this, other) ==
  LET support == {i \in req(g, this) .. (req(g, other) - 1) :
                     in(g, other, i) # make_empty_memory}
  IN IF support = {} THEN g
     ELSE add_req_upto(g, this, (CHOOSE i \in support : \A j \in support : j <= i) + 1)

verify_sparse(g, this) ==
  LET base_mem == base_memory(g, this)
  IN IF base_mem = make_empty_memory THEN TRUE
     ELSE \A i \in AliasIdxRaw .. (req(g, this) - 1) : in(g, this, i) # base_mem

MergeMemIdentity(g, this) ==
  LET base_mem  == base_memory(g, this)
      empty_mem == empty_memory(g, this)
  IN IF base_mem # empty_mem /\
        \E i \in AliasIdxRaw .. (req(g, this) - 1) :
            in(g, this, i) # empty_mem /\ in(g, this, i) # base_mem
     THEN this
     ELSE base_mem

(***************************************************************************)
(* MergeMemNode::Ideal.  The result is the rewritten graph, the progress   *)
(* report, the merges Ideal ran on (through PhaseGVN::transform of a       *)
(* MergeMem base) and whether the transform loop ran out of fuel.          *)
(***************************************************************************)
\* the slice loop reading an empty in(i) relative to the new base
IdealSlice_newBase(g, this, i, old_base, new_base) ==
  LET empty_mem == empty_memory(g, this)
      old_in    == in(g, this, i)
      old_mem   == IF old_in = empty_mem THEN new_base ELSE old_in
      new_mem   == IF old_mem = this
                   THEN (IF new_base = this \/ new_base = empty_mem
                         THEN empty_mem ELSE new_base)
                   ELSE IF is_MergeMem(old_mem) THEN memory_at(g, old_mem, i)
                   ELSE old_mem
  IN IF new_mem = new_base THEN empty_mem ELSE new_mem

\* one trip of the "Look at each slice" loop: the new in(i)
IdealSlice(g, this, i, old_base, new_base) ==
  LET empty_mem == empty_memory(g, this)
      old_in    == in(g, this, i)
      old_mem   == IF old_in = empty_mem THEN old_base ELSE old_in
      new_mem   == IF old_mem = this
                   THEN (IF new_base = this \/ new_base = empty_mem
                         THEN empty_mem ELSE new_base)
                   ELSE IF is_MergeMem(old_mem) THEN memory_at(g, old_mem, i)
                   ELSE old_mem
  IN IF new_mem = new_base THEN empty_mem ELSE new_mem

\* the progress Ideal reports: a slice or the base was rewritten, or the
\* memory path is dead
IdealProgress_always(changed, is_dead) == TRUE

IdealProgress(changed, is_dead) == changed \/ is_dead

\* "Cut inputs during Parse phase only."
CutInputs(g, this) ==
  LET ins == g[this]
  IN [g EXCEPT ![this] =
        Inputs([i \in 1 .. Len(ins) |->
                  IF i >= AliasIdxRaw THEN make_empty_memory ELSE ins[i]],
               Len(ins))]

\* the base the flattened node gets: a MergeMem base hands over its own base
IdealNewBase(g, this) ==
  IF is_MergeMem(base_memory(g, this))
  THEN base_memory(g, base_memory(g, this)) ELSE base_memory(g, this)

\* "the two merges must have the same number of slices"
IdealGrow(g, this) ==
  IF is_MergeMem(base_memory(g, this))
  THEN grow_to_match(g, this, base_memory(g, this)) ELSE g

\* the "Look at each slice" loop
IdealSlices(g1, this, old_base, new_base) ==
  [g1 EXCEPT ![this] =
     Inputs([i \in 1 .. Len(g1[this]) |->
               IF i >= AliasIdxRaw
               THEN IdealSlice(g1, this, i, old_base, new_base)
               ELSE g1[this][i]],
            Len(g1[this]))]

\* the base is replaced with no look at a self cycle
IdealSetBase_keepSelf(g2, this, old_base, new_base) ==
  IF new_base # old_base THEN set_req(g2, this, AliasIdxBot, new_base) ELSE g2

\* the base is replaced by the base of the merge below; a base that is the
\* node itself is a dead cycle and becomes empty
IdealSetBase(g2, this, old_base, new_base) ==
  IF new_base # old_base
  THEN (IF new_base = this THEN set_req(g2, this, AliasIdxBot, make_empty_memory)
        ELSE set_req(g2, this, AliasIdxBot, new_base))
  ELSE (IF old_base = this THEN set_req(g2, this, AliasIdxBot, make_empty_memory)
        ELSE g2)

IdealFlattenWith(g1, g2, this, old_base, new_base) ==
  [g        |-> IdealSetBase(g2, this, old_base, new_base),
   progress |-> g2[this] # g1[this] \/ new_base # old_base]

IdealFlatten(g1, this, old_base, new_base) ==
  IdealFlattenWith(g1, IdealSlices(g1, this, old_base, new_base), this, old_base,
                   new_base)

\* the base was a MergeMem and has been transformed to t.m: a dead result
\* kills this node's base
IdealRollupWith(t, this, progress) ==
  [g         |-> IF t.m = top \/ (is_MergeMem(t.m) /\ base_memory(t.g, t.m) = top)
                 THEN set_req(t.g, this, AliasIdxBot, make_empty_memory) ELSE t.g,
   progress  |-> progress,
   ran       |-> t.ran,
   exhausted |-> t.exhausted]

\* the end of Ideal: a dead node drops its slices while parsing
IdealFinish(r, this, can_reshape) ==
  [g         |-> IF base_memory(r.g, this) = make_empty_memory /\ ~can_reshape
                 THEN CutInputs(r.g, this) ELSE r.g,
   progress  |-> IdealProgress(r.progress, base_memory(r.g, this) = make_empty_memory),
   ran       |-> {this} \cup r.ran,
   exhausted |-> r.exhausted]

RECURSIVE MergeMemIdeal(_, _, _, _)
RECURSIVE transform(_, _, _, _)
RECURSIVE IdealRollup(_, _, _, _)
RECURSIVE transformStep(_, _, _, _)

\* "find a chance to roll up the base": transform a MergeMem base
IdealRollup(f, this, can_reshape, fuel) ==
  IF is_MergeMem(base_memory(f.g, this))
  THEN IdealRollupWith(transform(f.g, base_memory(f.g, this), can_reshape, fuel),
                       this, f.progress)
  ELSE [g |-> f.g, progress |-> f.progress, ran |-> {}, exhausted |-> FALSE]

MergeMemIdeal(g, this, can_reshape, fuel) ==
  IF base_memory(g, this) = empty_memory(g, this)
  THEN [g |-> g, progress |-> FALSE, ran |-> {this}, exhausted |-> FALSE]
  ELSE IdealFinish(
         IdealRollup(
           IdealFlatten(IdealGrow(g, this), this, base_memory(g, this),
                        IdealNewBase(g, this)),
           this, can_reshape, fuel),
         this, can_reshape)

\* the reports of two consecutive Ideal runs inside one transform
transformJoin(t, r) ==
  [g |-> t.g, m |-> t.m, ran |-> t.ran \cup r.ran,
   exhausted |-> t.exhausted \/ r.exhausted]

\* after one Ideal: apply it again when it made progress, else Identity
transformStep(r, n, can_reshape, fuel) ==
  IF r.progress
  THEN transformJoin(transform(r.g, n, can_reshape, fuel), r)
  ELSE [g |-> r.g, m |-> MergeMemIdentity(r.g, n), ran |-> r.ran,
        exhausted |-> r.exhausted]

\* PhaseGVN::transform on a MergeMem: Ideal until it reports no progress,
\* then Identity.
transform(g, n, can_reshape, fuel) ==
  IF fuel = 0
  THEN [g |-> g, m |-> MergeMemIdentity(g, n), ran |-> {}, exhausted |-> TRUE]
  ELSE transformStep(MergeMemIdeal(g, n, can_reshape, fuel - 1), n, can_reshape,
                     fuel - 1)

\* new MergeMemNode(new_base): a MergeMem new_base hands over its base and
\* every non-empty slice
CopySlices(mdef_ins) ==
  Inputs([i \in 1 .. Len(mdef_ins) |->
            IF i = AliasIdxTop \/ (i >= AliasIdxRaw /\ mdef_ins[i] = mdef_ins[AliasIdxBot])
            THEN make_empty_memory ELSE mdef_ins[i]],
         Len(mdef_ins))

MergeMemNode(g, this, new_base) ==
  LET fresh == [g EXCEPT ![this] = <<make_empty_memory, make_empty_memory, make_empty_memory>>]
  IN IF is_MergeMem(new_base)
     THEN [fresh EXCEPT ![this] = CopySlices(g[new_base])]
     ELSE set_base_memory(fresh, this, new_base)

\* an outside node replacement (subsume_node): every use of old becomes new
subsume_node(g, old, new) ==
  [m \in MergeMems |->
     Inputs([i \in 1 .. Len(g[m]) |->
               IF i # AliasIdxTop /\ g[m][i] = old THEN new ELSE g[m][i]],
            Len(g[m]))]

users(g, n) == {m \in MergeMems : \E i \in AliasIdxBot .. Len(g[m]) : g[m][i] = n}

(***************************************************************************)
(* The MergeMem state machine.  The graph starts as the parser leaves it:  *)
(* every merge constructed over a plain memory state, then linked below    *)
(* another merge with set_base_memory and given a slice with               *)
(* set_memory_at.                                                          *)
(***************************************************************************)
NoLast == [op |-> "new", node |-> top, progress |-> FALSE, fixed |-> FALSE,
           exhausted |-> FALSE]

MMBuild(b1, s1, b2, s2, s3) ==
  LET g0 == [m \in MergeMems |-> <<top, top, top>>]
      g3 == set_memory_at(MergeMemNode(g0, "M3", "W"), "M3", AliasIdxRaw + 1, s3)
      g2 == set_memory_at(set_base_memory(MergeMemNode(g3, "M2", "W"), "M2", b2),
                          "M2", AliasIdxRaw, s2)
  IN set_memory_at(set_base_memory(MergeMemNode(g2, "M1", "M3"), "M1", b1),
                   "M1", AliasIdxRaw, s1)

MMIdle ==
  /\ mm = [m \in MergeMems |-> <<top, top, top>>]
  /\ mmOps = 0
  /\ mmLast = NoLast
  /\ mmDirty = {}

MMInit ==
  /\ LdIdle
  /\ InitIdle
  /\ StIdle
  /\ \E b1 \in {"W", "M2"}, s1 \in {top, "X"}, b2 \in {"W", "M3"}, s2 \in {top, "X"},
        s3 \in {top, "X"} :
       mm = MMBuild(b1, s1, b2, s2, s3)
  /\ mmOps = 0
  /\ mmLast = NoLast
  /\ mmDirty = {}

MMSetMemoryAt(m, i, n) ==
  /\ mmOps < MaxOps
  /\ n # m
  /\ mm' = set_memory_at(mm, m, i, n)
  /\ mmOps' = mmOps + 1
  /\ mmLast' = [op |-> "set_memory_at", node |-> m, progress |-> FALSE,
                fixed |-> FALSE, exhausted |-> FALSE]
  /\ UNCHANGED mmDirty

MMSetBaseMemory(m, n) ==
  /\ mmOps < MaxOps
  /\ n # m
  /\ mm' = set_base_memory(mm, m, n)
  /\ mmOps' = mmOps + 1
  /\ mmLast' = [op |-> "set_base_memory", node |-> m, progress |-> FALSE,
                fixed |-> FALSE, exhausted |-> FALSE]
  /\ mmDirty' = IF n # top THEN mmDirty \ {m} ELSE mmDirty

MMIdeal(m, can_reshape) ==
  /\ mmOps < MaxOps
  /\ LET r == MergeMemIdeal(mm, m, can_reshape, MaxTransform)
     IN /\ mm' = r.g
        /\ mmLast' = [op |-> "Ideal", node |-> m, progress |-> r.progress,
                      fixed |-> (m \in mmDirty /\ ~verify_sparse(mm, m)),
                      exhausted |-> r.exhausted]
        /\ mmDirty' = mmDirty \ r.ran
  /\ mmOps' = mmOps + 1

MMSubsume(old, new) ==
  /\ mmOps < MaxOps
  /\ old # new
  /\ users(mm, old) # {}
  /\ mm' = subsume_node(mm, old, new)
  /\ mmOps' = mmOps + 1
  /\ mmLast' = [op |-> "subsume_node", node |-> old, progress |-> FALSE,
                fixed |-> FALSE, exhausted |-> FALSE]
  /\ mmDirty' = mmDirty \cup users(mm, old)

MMNext ==
  \/ \E m \in MergeMems, i \in AliasIdxs, n \in MemNodes :
        MMSetMemoryAt(m, i, n) /\ UNCHANGED <<ldVars, initVars, stVars>>
  \/ \E m \in MergeMems, n \in MemNodes : MMSetBaseMemory(m, n) /\ UNCHANGED <<ldVars, initVars, stVars>>
  \/ \E m \in MergeMems, can_reshape \in BOOLEAN :
        MMIdeal(m, can_reshape) /\ UNCHANGED <<ldVars, initVars, stVars>>
  \/ \E old \in MergeMems \cup PlainMem, new \in MemNodes :
        MMSubsume(old, new) /\ UNCHANGED <<ldVars, initVars, stVars>>

SpecMM == MMInit /\ [][MMNext]_vars

\* the transform loop of the model never runs out of fuel
FuelSuffices == ~mmLast.exhausted

(***************************************************************************)
(* C2: when no outside node replacement has rewritten a MergeMem since its *)
(* last Ideal (or set_base_memory) and its base is live, no slice slot at  *)
(* an alias index >= Raw holds the same node as the base; this holds after *)
(* construction and after every set_memory_at, set_base_memory and Ideal,  *)
(* and Ideal restores it on a merge a node replacement had broken.         *)
(***************************************************************************)
C2_SparseInvariant ==
  /\ \A m \in MergeMems :
       (m \notin mmDirty /\ base_memory(mm, m) # make_empty_memory)
          => \A i \in AliasIdxRaw .. (req(mm, m) - 1) : in(mm, m, i) # base_memory(mm, m)
  /\ (mmLast.op = "Ideal" /\ base_memory(mm, mmLast.node) # make_empty_memory)
          => verify_sparse(mm, mmLast.node)

\* Ideal has just repaired a merge whose slot a node replacement had made
\* equal to its base, and the merge is still live
C2_Witness ==
  /\ mmLast.op = "Ideal"
  /\ mmLast.fixed
  /\ base_memory(mm, mmLast.node) # make_empty_memory
  /\ verify_sparse(mm, mmLast.node)

(***************************************************************************)
(* C3 (as claimed): right after Ideal ran on a MergeMem, a second          *)
(* application reports no progress and leaves the graph as it is,          *)
(* whatever the nesting depth of the merges below it.                      *)
(***************************************************************************)
SecondIdeal == MergeMemIdeal(mm, mmLast.node, FALSE, MaxTransform)

C3_IdempotentAnyDepth ==
  mmLast.op = "Ideal" => (~SecondIdeal.progress /\ SecondIdeal.g = mm)

\* no MergeMem is left among the base and the slices of the node
NoMergeInput(g, m) == \A i \in AliasIdxBot .. (req(g, m) - 1) : ~is_MergeMem(in(g, m, i))

(***************************************************************************)
(* C3 (amended): right after Ideal ran on a MergeMem and left no MergeMem  *)
(* among its base and slices (the nest below it was at most one level      *)
(* deep), a second application reports no progress and leaves the base and *)
(* every slice as the first left them.                                     *)
(***************************************************************************)
C3_IdempotentOnceFlat ==
  (mmLast.op = "Ideal" /\ NoMergeInput(mm, mmLast.node))
     => (~SecondIdeal.progress /\ SecondIdeal.g = mm)

\* Ideal has just flattened a nested merge (it reported progress), the node
\* is live and holds a slice, and no merge is left among its inputs
C3_Witness ==
  /\ mmLast.op = "Ideal"
  /\ mmLast.progress
  /\ NoMergeInput(mm, mmLast.node)
  /\ base_memory(mm, mmLast.node) # make_empty_memory
  /\ \E i \in AliasIdxRaw .. (req(mm, mmLast.node) - 1) :
        in(mm, mmLast.node, i) # make_empty_memory

(***************************************************************************)
(* The load state machines.  ldMem is the memory chain the parser has      *)
(* built, ld the load last made over it, ldRes what the last operation on  *)
(* that load returned.                                                     *)
(***************************************************************************)
TypeIntINT == NonCon(-2147483647 - 1, 2147483647)

\* the stores, projections and loads of the find_previous_store machine
FPSStores ==
  {StoreNode(b, oo[1], oo[2], TypeIntINT, FALSE) :
     b \in {"A", "B", "P", "X", "K2", "R"},
     oo \in {<<0, "StoreI">>, <<8, "StoreI">>, <<8, "StoreL">>, <<12, "StoreI">>,
             <<12, "StoreB">>, <<14, "StoreC">>, <<16, "StoreI">>,
             <<OffsetBot, "StoreI">>}}
  \cup {StoreNode("none", OffsetBot, "StoreI", TypeIntINT, FALSE)}

FPSProjs == {ProjNode("InitProj", a, NoInit) : a \in Allocs}
            \cup {ProjNode("Other", null, NoInit)}

FPSLoads ==
  {[base |-> b, off |-> 12, cast |-> FALSE, opc |-> "LoadI", pinned |-> FALSE] :
     b \in {"A", "P", "K1", "R"}}
  \cup {[base |-> "A", off |-> 12, cast |-> FALSE, opc |-> "LoadB", pinned |-> FALSE],
        [base |-> "A", off |-> 16, cast |-> FALSE, opc |-> "LoadI", pinned |-> FALSE],
        [base |-> "A", off |-> OffsetBot, cast |-> FALSE, opc |-> "LoadI",
         pinned |-> FALSE]}

\* the parser puts a store, or the memory projection of a call or an
\* Initialize, on top of the chain
EmitMem(m) ==
  /\ Len(ldMem) < MaxChain
  /\ ldMem' = <<m>> \o ldMem
  /\ ld' = NoLoad
  /\ ldRes' = NoRes
  /\ UNCHANGED <<mmVars, initVars, stVars>>

\* a transformation of a dead loop leaves the memory chain cyclic: the memory
\* input of its last state becomes the k-th state from its end
CloseCycle(k) ==
  /\ ldMem # <<>>
  /\ ldMem[Len(ldMem)].kind # "LoopBack"
  /\ k \in 1 .. Len(ldMem)
  /\ ldMem' = Append(ldMem, LoopBack(k))
  /\ ld' = NoLoad
  /\ ldRes' = NoRes
  /\ UNCHANGED <<mmVars, initVars, stVars>>

\* a load is made over the chain and find_previous_store runs on it
FindPreviousStore(l) ==
  /\ ld \in {NoLoad, l}
  /\ ld' = l
  /\ ldRes' = [NoRes EXCEPT !.op = "find_previous_store",
                            !.fps = find_previous_store(l, ldMem)]
  /\ UNCHANGED <<ldMem, mmVars, initVars, stVars>>

FPSInit == LdIdle /\ MMIdle /\ InitIdle /\ StIdle

FPSNext ==
  \/ \E st \in FPSStores : EmitMem(st)
  \/ \E p \in FPSProjs : EmitMem(p)
  \/ \E k \in 1 .. MaxChain : CloseCycle(k)
  \/ \E l \in FPSLoads : FindPreviousStore(l)

SpecFPS == FPSInit /\ [][FPSNext]_vars

\* the constants and values stored, the memory states and the loads of the
\* Identity and Value machine: a load is made over the memory state, then
\* Identity and Value run on it
StoredCons == {0, 5, 52, 127, 128, 255, 256, 4660, 32767, 32768, 65535, 65536,
               305419896, 2147483647, -1, -128, -129, -32768, -32769,
               -2147483647 - 1}

StoredVals == {intcon(c) : c \in StoredCons}
              \cup {NonCon(-128, 127), NonCon(0, 65535), TypeIntINT}

ValMems ==
  {StoreNode(a[1], a[2], opc, v, a[3]) :
     a \in {<<"P", 12, FALSE>>, <<"P", 12, TRUE>>, <<"P", 16, TRUE>>, <<"X", 12, FALSE>>,
            <<"none", 12, FALSE>>, <<"none", 12, TRUE>>},
     opc \in {"StoreB", "StoreC", "StoreI"},
     v \in StoredVals}
  \cup {ProjNode("InitProj", "A",
                 [complete |-> c,
                  stores |-> <<StoreNode("A", 12, "StoreI", v, TRUE)>>]) :
          c \in BOOLEAN, v \in {intcon(5), TypeIntINT}}
  \cup {ProjNode("InitProj", "A", NoInit), zero_memory("A"), ProjNode("Other", null, NoInit)}

ValLoads ==
  {[base |-> b, off |-> 12, cast |-> FALSE, opc |-> opc, pinned |-> p] :
     b \in {"P", "A", "none"},
     opc \in {"LoadB", "LoadUB", "LoadS", "LoadUS", "LoadI"},
     p \in BOOLEAN}
  \cup {[base |-> a[1], off |-> a[2], cast |-> FALSE, opc |-> opc, pinned |-> FALSE] :
          a \in {<<"A", 8>>, <<"A", 16>>, <<"B", 12>>, <<"A", OffsetBot>>},
          opc \in {"LoadB", "LoadI"}}

Identity(l) ==
  /\ ld \in {NoLoad, l}
  /\ ld' = l
  /\ ldRes' = [NoRes EXCEPT !.op = "Identity", !.node = LoadIdentity(l, ldMem[1])]
  /\ UNCHANGED <<ldMem, mmVars, initVars, stVars>>

Value(l) ==
  /\ ld \in {NoLoad, l}
  /\ ld' = l
  /\ ldRes' = [NoRes EXCEPT !.op = "Value", !.type = LoadValue(l, ldMem[1])]
  /\ UNCHANGED <<ldMem, mmVars, initVars, stVars>>

LoadInit == ldMem \in {<<m>> : m \in ValMems} /\ ld = NoLoad /\ ldRes = NoRes /\ MMIdle /\ InitIdle
            /\ StIdle

LoadNext ==
  \/ \E l \in ValLoads : Identity(l)
  \/ \E l \in ValLoads : Value(l)

SpecLoad == LoadInit /\ [][LoadNext]_vars

(***************************************************************************)
(* What the bytes of a load and of a store can be at run time.  Two base   *)
(* pointers may name the same object unless they are the results of two    *)
(* allocations, or one is the result of an allocation and the other        *)
(* existed before it, or they are distinct constants.  The offsets of two  *)
(* accesses compare only when the accesses have the same base node or both *)
(* bases are object pointers.                                              *)
(***************************************************************************)
MayAlias(b1, b2) ==
  \/ b1 = b2
  \/ ~ \/ (b1 \in Allocs /\ b2 \in Allocs)
       \/ (b1 \in Allocs /\ b2 \in {"P", "K1", "K2"})
       \/ (b2 \in Allocs /\ b1 \in {"P", "K1", "K2"})
       \/ (b1 \in {"K1", "K2"} /\ b2 \in {"K1", "K2"})

CannotOverlap(l, m) ==
  IF m.kind = "Store"
  THEN \/ ~MayAlias(l.base, m.base)
       \/ /\ m.base = l.base \/ {m.base, l.base} \cap {"R", "none"} = {}
          /\ m.off # OffsetBot /\ l.off # OffsetBot
          /\ \/ m.off >= l.off + memory_size(l.opc)
             \/ m.off + memory_size(m.opc) <= l.off
  ELSE m.kind = "InitProj" /\ ~MayAlias(l.base, m.base)

Seen == can_see_stored_value(ld, ldMem[1])

Modulus(opc) == IF opc \in {"LoadB", "LoadUB"} THEN 256 ELSE 65536

(***************************************************************************)
(* C8: when a sub-word load sees a constant c that does not fit its type,  *)
(* Value is the singleton of the value in the load's range that agrees     *)
(* with c on the low 8 (LoadB, LoadUB) or 16 (LoadS, LoadUS) bits: the     *)
(* sign-extended low bits for LoadB and LoadS, c & 0xFF for LoadUB and     *)
(* c & 0xFFFF for LoadUS.                                                  *)
(***************************************************************************)
C8_Truncation ==
  (ldRes.op = "Value" /\ ld.opc \in {"LoadB", "LoadUB", "LoadS", "LoadUS"} /\
   Seen # NoVal /\ Seen.con /\ ~higher_equal(Seen, LoadType(ld.opc)))
    => /\ ldRes.type.lo = ldRes.type.hi
       /\ higher_equal(ldRes.type, LoadType(ld.opc))
       /\ ldRes.type.lo % Modulus(ld.opc) = Seen.lo % Modulus(ld.opc)

\* a byte load of the stored constant 0x1234 has the value 0x34
C8_Witness ==
  /\ ldRes.op = "Value"
  /\ ld.opc = "LoadB"
  /\ Seen = intcon(4660)
  /\ ldRes.type = [lo |-> 52, hi |-> 52]

\* the memory input of the load is a store of the matching kind to the same
\* address node, or to the same base and the same constant offset
MatchingStore(l, st) ==
  /\ st.kind = "Store"
  /\ st.opc = store_Opcode(l.opc)
  /\ \/ (st.base = l.base /\ st.off = l.off /\ st.cast = l.cast)
     \/ (st.base = l.base /\ l.base # "none" /\ st.off = l.off /\ l.off # OffsetBot)

(***************************************************************************)
(* C9 (as claimed): Identity replaces every load whose memory input is a   *)
(* matching store by the stored value, and forwards nothing from a store   *)
(* whose kind or offset differs.                                           *)
(***************************************************************************)
C9_AlwaysForwarded ==
  (ldRes.op = "Identity" /\ ldMem[1].kind = "Store") =>
     IF MatchingStore(ld, ldMem[1])
     THEN ldRes.node = [self |-> FALSE, val |-> ldMem[1].val]
     ELSE ldRes.node = KeepLoad

(***************************************************************************)
(* C9 (amended): Identity replaces a load whose memory input is a matching *)
(* store by the stored value unless the load is narrower than an int and   *)
(* the type of the value does not fit the load's type, or the load is      *)
(* pinned and the value is not a constant; in those cases, and for a store *)
(* whose kind, base or offset differs, it returns the load itself.         *)
(***************************************************************************)
C9_Forwarded ==
  (ldRes.op = "Identity" /\ ldMem[1].kind = "Store") =>
     IF /\ MatchingStore(ld, ldMem[1])
        /\ ~(memory_size(ld.opc) < BytesPerInt /\
             ~higher_equal(ldMem[1].val, LoadType(ld.opc)))
        /\ ~(ld.pinned /\ ~ldMem[1].val.con)
     THEN ldRes.node = [self |-> FALSE, val |-> ldMem[1].val]
     ELSE ldRes.node = KeepLoad

\* an int load over a store of the constant 5 to the same base and offset
\* through another address node has become the constant 5
C9_Witness ==
  /\ ldRes.op = "Identity"
  /\ ld.opc = "LoadI"
  /\ ldMem[1].kind = "Store"
  /\ ldMem[1].cast # ld.cast
  /\ ldMem[1].val = intcon(5)
  /\ ldRes.node = [self |-> FALSE, val |-> intcon(5)]

(***************************************************************************)
(* C10 (as claimed): Identity returns the load itself for every pinned     *)
(* load.                                                                   *)
(***************************************************************************)
C10_PinnedNeverReplaced ==
  (ldRes.op = "Identity" /\ ld.pinned) => ldRes.node = KeepLoad

(***************************************************************************)
(* C10 (amended): Identity replaces a pinned load by nothing but a         *)
(* constant: it returns the load itself whenever the value                 *)
(* can_see_stored_value finds is not a constant, and the constant when it  *)
(* is one that fits the load's type.                                       *)
(***************************************************************************)
C10_PinnedOnlyConstant ==
  (ldRes.op = "Identity" /\ ld.pinned) =>
     /\ (Seen = NoVal \/ ~Seen.con) => ldRes.node = KeepLoad
     /\ ldRes.node # KeepLoad => (ldRes.node.val.con /\ ldRes.node.val = Seen)

\* a pinned load sees a non-constant value that fits its type in the
\* matching store under it, and Identity has returned the load itself
C10_Witness ==
  /\ ldRes.op = "Identity"
  /\ ld.pinned
  /\ MatchingStore(ld, ldMem[1])
  /\ Seen # NoVal
  /\ ~Seen.con
  /\ higher_equal(Seen, LoadType(ld.opc))
  /\ ldRes.node = KeepLoad

(***************************************************************************)
(* InitializeNode.  Its state is [complete, stores]: stores[k] is the raw  *)
(* store in(RawStores + k - 1), zero_memory or top.  A captured store      *)
(* whose memory input is not zero_memory lists in 'under' the stores of    *)
(* the chain below it, nearest first.  The flags are those of the VM and   *)
(* of the platform: ReduceFieldZeroing, ReduceBulkZeroing, ZeroTLAB        *)
(* (UseTLAB && ZeroTLAB), little (byte order), simple64                    *)
(* (Matcher::isSimpleConstant64).                                          *)
(***************************************************************************)
zmem == zero_memory("A")

longcon(lo32, hi32) == [con |-> TRUE, lo |-> lo32, hi |-> hi32]

is_zero_type(val) == val.con /\ val.lo = 0 /\ val.hi = 0

\* set_req(i, n), ins_req(i, n) on the captured stores
SetStore(stores, i, n) == Inputs([k \in 1 .. Len(stores) |-> IF k = i THEN n ELSE stores[k]],
                                 Len(stores))

InsStore(stores, i, n) ==
  Inputs([k \in 1 .. (Len(stores) + 1) |->
            IF k < i THEN stores[k] ELSE IF k = i THEN n ELSE stores[k - 1]],
         Len(stores) + 1)

RECURSIVE remove_extra_zeroes(_)
remove_extra_zeroes(stores) ==
  IF stores = <<>> THEN <<>>
  ELSE IF Head(stores).kind = "top" \/ Head(stores) = zmem
  THEN remove_extra_zeroes(Tail(stores))
  ELSE <<Head(stores)>> \o remove_extra_zeroes(Tail(stores))

\* the checks of can_capture_store on the address of the store: 0 is FAIL
can_capture_store(st) ==
  IF Ideal_allocation(st.base) # "A" THEN 0
  ELSE IF st.off = OffsetBot THEN 0
  ELSE IF st.off % memory_size(st.opc) # 0 THEN 0
  ELSE st.off

\* PhaseGVN::transform of the raw clone new_st in capture_store:
\* StoreNode::Ideal bypasses the store under it when that store has no other
\* use; StoreNode::Identity folds a store of the value the store under it
\* wrote, and a store of zero into fresh memory
IdealStore(new_st, other_use) ==
  IF new_st.under # <<>> /\ ~other_use
  THEN [new_st EXCEPT !.under = Tail(new_st.under)]
  ELSE new_st

IdentityStore(st) ==
  IF st.under # <<>> /\ Head(st.under).val = st.val /\ Head(st.under).opc = st.opc
  THEN [Head(st.under) EXCEPT !.under = Tail(st.under)]
  ELSE IF st.under = <<>> /\ is_zero_type(st.val) THEN zmem
  ELSE st

transform_store(new_st, other_use) == IdentityStore(IdealStore(new_st, other_use))

\* the raw clone of st over prev_mem
RawClone(st, prev_mem) ==
  [st EXCEPT !.base = "A", !.cast = FALSE,
             !.under = IF prev_mem.kind = "Store"
                       THEN <<[prev_mem EXCEPT !.under = <<>>]>> \o prev_mem.under
                       ELSE <<>>]

CaptureAt_append(stores, i, st, other_use) ==
  IF i > 0
  THEN SetStore(stores, i, transform_store(RawClone(st, stores[i]), other_use))
  ELSE Append(stores, transform_store(RawClone(st, zmem), other_use))

\* capture_store once the insertion point i # 0 is known
CaptureAt(stores, i, st, other_use) ==
  IF i > 0
  THEN SetStore(stores, i, transform_store(RawClone(st, stores[i]), other_use))
  ELSE IF -i > 1 /\ stores[(-i) - 1] = zmem
  THEN SetStore(stores, (-i) - 1, transform_store(RawClone(st, zmem), other_use))
  ELSE InsStore(stores, -i, transform_store(RawClone(st, zmem), other_use))

\* the result is the new state and whether a store was returned
capture_store(node, st, start, other_use) ==
  IF start < 0 \/ captured_store_insertion_point(node, start, memory_size(st.opc)) = 0
  THEN [init |-> node, ok |-> FALSE]
  ELSE [init |-> [node EXCEPT !.stores =
                     CaptureAt(node.stores,
                               captured_store_insertion_point(node, start,
                                                              memory_size(st.opc)),
                               st, other_use)],
        ok |-> TRUE]

(***************************************************************************)
(* Constants as bytes.  Byte(c, k) is byte k (0 the least significant) of  *)
(* the two's complement of c; a long constant is kept as its low and high  *)
(* 32-bit halves.  A non-constant value writes bytes that are told apart   *)
(* from every constant byte (they are above 255) and from each other.      *)
(***************************************************************************)
Byte(c, k) == (c \div (256 ^ k)) % 256

FromBytes(b0, b1, b2, b3) ==
  b0 + 256 * b1 + 65536 * b2 + 16777216 * (IF b3 >= 128 THEN b3 - 256 ELSE b3)

\* byte k, by significance, of what the store st writes
SigByte(st, k) ==
  IF ~st.val.con THEN 1000 + 10 * st.off + k
  ELSE IF k < BytesPerInt THEN Byte(st.val.lo, k)
  ELSE Byte(st.val.hi, k - BytesPerInt)

\* which byte, by significance, the platform keeps at address st_off + d
SigIndex(d, st_size, little) == IF little THEN d ELSE st_size - 1 - d

\* store_constant on the byte array of the tiles; tiles[a + 1] is the byte
\* at offset a
store_constant_swapped(tiles, st, little) ==
  Inputs([a \in 1 .. Len(tiles) |->
            IF st.off < a /\ a <= st.off + memory_size(st.opc)
            THEN SigByte(st, SigIndex(a - 1 - st.off, memory_size(st.opc), ~little))
            ELSE tiles[a]],
         Len(tiles))

store_constant(tiles, st, little) ==
  Inputs([a \in 1 .. Len(tiles) |->
            IF st.off < a /\ a <= st.off + memory_size(st.opc)
            THEN SigByte(st, SigIndex(a - 1 - st.off, memory_size(st.opc), little))
            ELSE tiles[a]],
         Len(tiles))

ZeroBytes(n) == Inputs([a \in 1 .. n |-> 0], n)

\* intcon[h] = 0 on tile j: h is 0 or 1, address-wise
ZeroHalf(tiles, j, h) ==
  Inputs([a \in 1 .. Len(tiles) |->
            IF j * BytesPerLong + h * BytesPerInt < a /\
               a <= j * BytesPerLong + (h + 1) * BytesPerInt
            THEN 0 ELSE tiles[a]],
         Len(tiles))

\* intcon[h] == v on tile j, for v = 0 (all bytes 0) and v = -1 (all 255)
HalfIs(tiles, j, h, v) ==
  \A d \in 1 .. BytesPerInt :
     tiles[j * BytesPerLong + h * BytesPerInt + d] = Byte(v, 0)

\* the jint read at offset a of the tiles
TileInt(tiles, a, little) ==
  intcon(FromBytes(tiles[a + 1 + SigIndex(0, BytesPerInt, little)],
                   tiles[a + 1 + SigIndex(1, BytesPerInt, little)],
                   tiles[a + 1 + SigIndex(2, BytesPerInt, little)],
                   tiles[a + 1 + SigIndex(3, BytesPerInt, little)]))

\* the jlong read at offset a of the tiles
TileLong(tiles, a, little) ==
  longcon(FromBytes(tiles[a + 1 + SigIndex(0, BytesPerLong, little)],
                    tiles[a + 1 + SigIndex(1, BytesPerLong, little)],
                    tiles[a + 1 + SigIndex(2, BytesPerLong, little)],
                    tiles[a + 1 + SigIndex(3, BytesPerLong, little)]),
          FromBytes(tiles[a + 1 + SigIndex(4, BytesPerLong, little)],
                    tiles[a + 1 + SigIndex(5, BytesPerLong, little)],
                    tiles[a + 1 + SigIndex(6, BytesPerLong, little)],
                    tiles[a + 1 + SigIndex(7, BytesPerLong, little)]))

align_up(x, n) == ((x + n - 1) \div n) * n
align_down(x, n) == (x \div n) * n

\* size_limit of coalesce_subword_stores
TileLimit(size_in_bytes) ==
  align_up(IF size_in_bytes < TrackedInitializationLimit * HeapWordSize
           THEN size_in_bytes ELSE TrackedInitializationLimit * HeapWordSize,
           BytesPerLong)

(***************************************************************************)
(* Pass A of coalesce_subword_stores.  The state is the captured stores,   *)
(* the tiles, the inits, nodes (nodes[j + 1] for tile j, NullNode for      *)
(* nullptr) and old = old_subword + old_long.                              *)
(***************************************************************************)
PassAInit(stores, size_limit) ==
  [stores |-> stores, tiles |-> ZeroBytes(size_limit), inits |-> ZeroBytes(size_limit),
   nodes |-> Inputs([j \in 1 .. (size_limit \div BytesPerLong) |-> NullNode],
                    size_limit \div BytesPerLong),
   old |-> 0]

\* "This StoreI is already optimal by itself": st is nodes[j], the tile has
\* lost its second half
PassAUndo(s, i, j, st) ==
  IF ~HalfIs(s.tiles, j, 0, 0) /\ st # NullNode /\ st.opc = "StoreI"
  THEN [s EXCEPT !.tiles = ZeroHalf(s.tiles, j, 0),
                 !.stores = SetStore(s.stores, i - 1, st),
                 !.nodes = SetStore(s.nodes, j + 1, NullNode),
                 !.old = s.old - 1]
  ELSE s

\* the constant of st is in the tiles
PassATile(s, i, st, simple64) ==
  IF st.opc = "StoreI" /\ st.off % BytesPerLong = BytesPerInt /\ ~simple64
  THEN PassAUndo([s EXCEPT !.tiles = ZeroHalf(s.tiles, st.off \div BytesPerLong, 1)],
                 i, st.off \div BytesPerLong, s.nodes[(st.off \div BytesPerLong) + 1])
  ELSE [s EXCEPT !.stores = SetStore(s.stores, i, zmem),
                 !.nodes = SetStore(s.nodes, (st.off \div BytesPerLong) + 1, st),
                 !.old = s.old + 1]

\* a pass A that leaves every store narrower than an int alone
PassAStore_keepSubword(s, i, st, fl) ==
  IF ~st.val.con \/ memory_size(st.opc) < BytesPerInt THEN s
  ELSE IF st.opc = "StoreL" /\ fl.simple64 THEN s
  ELSE PassATile([s EXCEPT !.tiles = store_constant(s.tiles, st, fl.little)],
                 i, st, fl.simple64)

\* the bytes of st are recorded in the inits
PassAStore(s, i, st, fl) ==
  IF ~st.val.con THEN s
  ELSE IF st.opc = "StoreL" /\ fl.simple64 THEN s
  ELSE PassATile([s EXCEPT !.tiles = store_constant(s.tiles, st, fl.little)],
                 i, st, fl.simple64)

RECURSIVE PassA(_, _, _, _, _)
PassA(s, i, header_size, size_limit, fl) ==
  IF i > Len(s.stores) THEN s
  ELSE IF get_store_offset(s.stores[i]) < header_size
  THEN PassA(s, i + 1, header_size, size_limit, fl)
  ELSE IF s.stores[i].under # <<>>
  THEN PassA(s, i + 1, header_size, size_limit, fl)
  ELSE IF s.stores[i].off + memory_size(s.stores[i].opc) > size_limit THEN s
  ELSE IF s.stores[i].off % memory_size(s.stores[i].opc) # 0
  THEN PassA(s, i + 1, header_size, size_limit, fl)
  ELSE PassA(PassAStore([s EXCEPT !.inits = store_constant(
                                           s.inits,
                                           [s.stores[i] EXCEPT !.val = longcon(-1, -1)],
                                           fl.little)],
                        i, s.stores[i], fl),
             i + 1, header_size, size_limit, fl)

(***************************************************************************)
(* Pass B.  The state is the captured stores and whether the guarantee     *)
(* "must re-insert constant store" has failed.                             *)
(***************************************************************************)
TileStore(offset, opc, val) == StoreNode("A", offset, opc, val, FALSE)

\* the one or two coalesced stores of tile j, in address order
TileSplit(s, j, header_size, fl) ==
  \/ ~fl.simple64
  \/ j * BytesPerLong < header_size
  \/ HalfIs(s.tiles, j, 0, 0) /\ HalfIs(s.inits, j, 0, -1)
  \/ HalfIs(s.tiles, j, 1, 0) /\ HalfIs(s.inits, j, 1, -1)

TileStores(s, j, header_size, fl) ==
  IF ~TileSplit(s, j, header_size, fl)
  THEN <<TileStore(j * BytesPerLong, "StoreL",
                   TileLong(s.tiles, j * BytesPerLong, fl.little))>>
  ELSE (IF ~HalfIs(s.tiles, j, 0, 0)
        THEN <<TileStore(j * BytesPerLong, "StoreI",
                         TileInt(s.tiles, j * BytesPerLong, fl.little))>>
        ELSE <<>>)
       \o
       (IF ~HalfIs(s.tiles, j, 1, 0)
        THEN <<TileStore(j * BytesPerLong + BytesPerInt, "StoreI",
                         TileInt(s.tiles, j * BytesPerLong + BytesPerInt, fl.little))>>
        ELSE <<>>)

\* the body of the loop "while (nst > 0)" once ins_idx # 0 is known
InsertTileAt(stores, ins_idx, st1) ==
  IF ins_idx > 1 /\ stores[ins_idx - 1] = zmem
  THEN SetStore(stores, ins_idx - 1, st1)
  ELSE InsStore(stores, ins_idx, st1)

InsertTile(b, st1) ==
  LET ins_idx == captured_store_insertion_point([complete |-> FALSE, stores |-> b.stores],
                                                st1.off, 0)
  IN IF ins_idx = 0 THEN [b EXCEPT !.failed = TRUE]
     ELSE [b EXCEPT !.stores = InsertTileAt(b.stores,
                                            IF ins_idx < 0 THEN -ins_idx ELSE ins_idx,
                                            st1)]

\* "Insert second store first, then the first before the second."
RECURSIVE InsertTiles(_, _)
InsertTiles(b, sts) ==
  IF sts = <<>> THEN b
  ELSE InsertTiles(InsertTile(b, sts[Len(sts)]), SubSeq(sts, 1, Len(sts) - 1))

RECURSIVE PassB(_, _, _, _, _)
PassB(b, s, j, header_size, fl) ==
  IF j >= Len(s.nodes) THEN b
  ELSE IF HalfIs(s.tiles, j, 0, 0) /\ HalfIs(s.tiles, j, 1, 0)
  THEN PassB(b, s, j + 1, header_size, fl)
  ELSE PassB(InsertTiles(b, TileStores(s, j, header_size, fl)), s, j + 1,
             header_size, fl)

CoalesceFinish(s, header_size, fl) ==
  IF s.old = 0 THEN [stores |-> s.stores, failed |-> FALSE]
  ELSE [PassB([stores |-> s.stores, failed |-> FALSE], s, 0, header_size, fl)
          EXCEPT !.stores = remove_extra_zeroes(@)]

coalesce_subword_stores(stores, header_size, size_in_bytes, fl) ==
  CoalesceFinish(PassA(PassAInit(stores, TileLimit(size_in_bytes)), 1, header_size,
                       TileLimit(size_in_bytes), fl),
                 header_size, fl)

(***************************************************************************)
(* InitializeNode::find_next_fullword_store.  int_map is kept as the set   *)
(* of its one bits.                                                        *)
(***************************************************************************)
RECURSIVE next_fullword_from(_, _, _, _)
next_fullword_from(stores, i, int_map, int_map_off) ==
  IF i > Len(stores) THEN -1
  ELSE IF get_store_offset(stores[i]) < 0 THEN -1
  ELSE LET st_off       == stores[i].off
           st_size      == memory_size(stores[i].opc)
           this_int_off == align_down(st_off, BytesPerInt)
           map          == (IF this_int_off # int_map_off THEN {} ELSE int_map) \cup
                           ((st_off - this_int_off) .. (st_off - this_int_off + st_size - 1))
           next_int_off == align_down(st_off + st_size, BytesPerInt)
       IN IF st_size >= BytesPerInt /\ st_off % BytesPerInt = 0 THEN st_off
          ELSE IF (0 .. (BytesPerInt - 1)) \subseteq map THEN this_int_off
          ELSE IF next_int_off = this_int_off + BytesPerInt
          THEN next_fullword_from(stores, i + 1,
                                  {b - BytesPerInt : b \in {x \in map : x >= BytesPerInt}},
                                  next_int_off)
          ELSE IF next_int_off > this_int_off + BytesPerInt
          THEN this_int_off + BytesPerInt
          ELSE next_fullword_from(stores, i + 1, map, this_int_off)

find_next_fullword_store(stores, start) == next_fullword_from(stores, start, {}, 0)

(***************************************************************************)
(* ClearArrayNode::clear_memory: the set of the byte offsets the emitted   *)
(* code writes with zero.  The bulk clear counts double-words.             *)
(***************************************************************************)
clear_memory_bulk(start_offset, end_offset) ==
  IF start_offset = end_offset THEN {}
  ELSE start_offset ..
       (start_offset +
        BytesPerLong * ((end_offset \div BytesPerLong) - (start_offset \div BytesPerLong))
        - 1)

\* clear_memory(intptr_t start_offset, Node* end_offset)
clear_memory_to(start_offset, end_offset) ==
  IF start_offset % BytesPerLong # 0
  THEN (start_offset .. (start_offset + BytesPerInt - 1)) \cup
       clear_memory_bulk(start_offset + BytesPerInt, end_offset)
  ELSE clear_memory_bulk(start_offset, end_offset)

\* end_offset less the final 32-bit store
done_offset(end_offset) ==
  IF end_offset % BytesPerLong # 0 THEN end_offset - BytesPerInt ELSE end_offset

\* clear_memory(intptr_t start_offset, intptr_t end_offset)
clear_memory_nofinal(start_offset, end_offset) ==
  IF start_offset = end_offset THEN {}
  ELSE IF done_offset(end_offset) > start_offset
       THEN clear_memory_to(start_offset, done_offset(end_offset)) ELSE {}

clear_memory(start_offset, end_offset) ==
  IF start_offset = end_offset THEN {}
  ELSE (IF done_offset(end_offset) > start_offset
        THEN clear_memory_to(start_offset, done_offset(end_offset)) ELSE {})
       \cup
       (IF done_offset(end_offset) < end_offset
        THEN done_offset(end_offset) .. (done_offset(end_offset) + BytesPerInt - 1)
        ELSE {})

(***************************************************************************)
(* InitializeNode::complete_stores.  The loop state: the captured stores,  *)
(* inits (the stores collected on the linearized chain, newest first),     *)
(* zeroes_done, do_zeroing, big_init_gaps, and zeroed, the bytes the       *)
(* zeroing emitted on rawmem writes.                                       *)
(***************************************************************************)
zeroes_needed(stores, i, st) ==
  IF memory_size(st.opc) >= BytesPerInt THEN st.off
  ELSE IF find_next_fullword_store(stores, i) < 0 THEN align_up(st.off, BytesPerInt)
  ELSE find_next_fullword_store(stores, i)

\* "Do some incremental zeroing on rawmem, in parallel with inits."
ZeroGap(z, needed) ==
  IF needed > z.zeroes_done
  THEN [z EXCEPT !.zeroed = @ \cup clear_memory(align_down(z.zeroes_done, BytesPerInt),
                                                needed),
                 !.zeroes_done = needed,
                 !.big_init_gaps = IF needed - z.zeroes_done > InitArrayShortSize
                                   THEN @ + 1 ELSE @,
                 !.do_zeroing = ~(needed - z.zeroes_done > InitArrayShortSize /\
                                  z.big_init_gaps + 1 > 2)]
  ELSE z

ZeroBefore(z, i, st) ==
  IF z.do_zeroing /\ z.zeroes_done < st.off + memory_size(st.opc)
  THEN ZeroGap(z, zeroes_needed(z.stores, i, st))
  ELSE z

\* "Collect the store and move on"
Collect(z, i, st) ==
  [z EXCEPT !.inits = <<st>> \o @,
            !.stores = SetStore(@, i, zmem),
            !.zeroes_done = IF @ = st.off THEN st.off + memory_size(st.opc) ELSE @]

RECURSIVE CompleteLoop(_, _)
CompleteLoop(z, i) ==
  IF i > Len(z.stores) THEN z
  ELSE IF get_store_offset(z.stores[i]) < 0 THEN z
  ELSE IF z.stores[i].under # <<>> THEN z
  ELSE CompleteLoop(Collect(ZeroBefore(z, i, z.stores[i]), i, z.stores[i]), i + 1)

\* the node of the linearized chain that add_req(inits) appends
Linearized(inits) ==
  IF inits = <<>> THEN zmem ELSE [Head(inits) EXCEPT !.under = Tail(inits)]

\* the instance's layout helper is its size
layout_helper == ObjectSize

\* "If anything remains to be zeroed, zero it all now."
FinalClear(z, zeroes_done, size_limit, fl) ==
  IF fl.ZeroTLAB THEN z.zeroed
  ELSE IF zeroes_done + BytesPerLong >= size_limit /\ zeroes_done = layout_helper
  THEN z.zeroed
  ELSE IF zeroes_done < size_limit
  THEN z.zeroed \cup clear_memory_to(zeroes_done, size_limit)
  ELSE z.zeroed

CompleteInit(stores, header_size, fl) ==
  [stores |-> stores, inits |-> <<>>, zeroes_done |-> header_size,
   do_zeroing |-> ~fl.ZeroTLAB /\ (fl.ReduceFieldZeroing \/ fl.ReduceBulkZeroing),
   big_init_gaps |-> 0, zeroed |-> {}]

\* complete_stores after coalesce_subword_stores has returned c
CompleteZero(c, z, size_in_bytes, fl) ==
  [stores |-> Append(remove_extra_zeroes(z.stores), Linearized(z.inits)),
   tiled |-> c.stores, failed |-> c.failed,
   zeroed |-> FinalClear(z, align_down(z.zeroes_done, BytesPerInt), size_in_bytes, fl)]

complete_stores(stores, header_size, size_in_bytes, fl) ==
  LET c == IF fl.ReduceFieldZeroing \/ fl.ReduceBulkZeroing
           THEN coalesce_subword_stores(remove_extra_zeroes(stores), header_size,
                                        size_in_bytes, fl)
           ELSE [stores |-> remove_extra_zeroes(stores), failed |-> FALSE]
  IN CompleteZero(c, CompleteLoop(CompleteInit(c.stores, header_size, fl), 1),
                  size_in_bytes, fl)

(***************************************************************************)
(* The InitializeNode of the allocation "A" as a state machine: stores are *)
(* captured (StoreNode::Ideal), and the macro expansion of the allocation  *)
(* completes the node (complete_stores) or the allocation is found to need *)
(* no initialization (maybe_set_complete).  find_captured_store changes    *)
(* nothing; what it answers is a function of the state.                    *)
(***************************************************************************)
InitFlags ==
  { [ReduceFieldZeroing |-> TRUE, ReduceBulkZeroing |-> TRUE, ZeroTLAB |-> FALSE,
     little |-> TRUE, simple64 |-> TRUE],
    [ReduceFieldZeroing |-> TRUE, ReduceBulkZeroing |-> TRUE, ZeroTLAB |-> FALSE,
     little |-> FALSE, simple64 |-> FALSE],
    [ReduceFieldZeroing |-> TRUE, ReduceBulkZeroing |-> FALSE, ZeroTLAB |-> TRUE,
     little |-> TRUE, simple64 |-> FALSE],
    [ReduceFieldZeroing |-> FALSE, ReduceBulkZeroing |-> TRUE, ZeroTLAB |-> FALSE,
     little |-> FALSE, simple64 |-> TRUE],
    [ReduceFieldZeroing |-> FALSE, ReduceBulkZeroing |-> FALSE, ZeroTLAB |-> FALSE,
     little |-> TRUE, simple64 |-> TRUE] }

\* the constant a store of the given opcode writes at the given offset
InitCon(opc, off) ==
  CASE opc = "StoreB" -> intcon(IF off = 15 THEN -1 ELSE off)
    [] opc = "StoreC" -> intcon(256 * (off + 1) + off)
    [] opc = "StoreI" -> intcon(16909060 + off)
    [] opc = "StoreL" -> longcon(16909060, 84281096)

\* the stores to the allocation "A" (and one to "P") that reach StoreNode::Ideal
InitStores ==
  { StoreNode("A", s[1], s[2], InitCon(s[2], s[1]), FALSE) :
      s \in { <<12, "StoreB">>, <<13, "StoreB">>, <<14, "StoreB">>, <<15, "StoreB">>,
              <<14, "StoreC">>, <<13, "StoreC">>,
              <<16, "StoreI">>, <<20, "StoreI">>, <<24, "StoreI">>, <<32, "StoreI">>,
              <<48, "StoreI">>, <<16, "StoreL">> } }
  \cup
  { StoreNode("A", s[1], s[2], TypeIntINT, FALSE) :
      s \in { <<13, "StoreB">>, <<20, "StoreI">>, <<40, "StoreI">> } }
  \cup
  { StoreNode("A", 20, "StoreI", intcon(0), FALSE),
    StoreNode("P", 16, "StoreI", InitCon("StoreI", 16), FALSE) }

\* the inputs of the node and the stores kept under them
RECURSIVE Held(_)
Held(stores) ==
  IF stores = <<>> THEN 0 ELSE 1 + Len(Head(stores).under) + Held(Tail(stores))

\* whether the store in place at the offset of st has a use besides the node
OtherUses(st) ==
  IF can_capture_store(st) > 0 /\
     captured_store_insertion_point(initNode, can_capture_store(st),
                                    memory_size(st.opc)) > 0
  THEN BOOLEAN ELSE {FALSE}

\* the capture branch of StoreNode::Ideal.  initLast.fits tells whether the
\* node would capture the store if it were incomplete, initLast.ip whether
\* captured_store_insertion_point found the offset (1), a place for it (-1) or
\* failed (0)
CaptureStore(st, other_use) ==
  /\ initFlags.ReduceFieldZeroing
  /\ initNode.complete \/ Held(initNode.stores) < MaxCaptured
  /\ LET start == can_capture_store(st)
         i     == captured_store_insertion_point(initNode, start, memory_size(st.opc))
         r     == capture_store(initNode, st, start, other_use)
     IN /\ initNode' = IF start > 0 THEN r.init ELSE initNode
        /\ initLast' = [NoInitLast EXCEPT
                          !.op = "capture_store",
                          !.ok = start > 0 /\ r.ok,
                          !.fits = start > 0 /\
                                   captured_store_insertion_point(
                                     [initNode EXCEPT !.complete = FALSE], start,
                                     memory_size(st.opc)) # 0,
                          !.ip = IF i < 0 THEN -1 ELSE IF i > 0 THEN 1 ELSE 0]
  /\ UNCHANGED <<initFlags, mmVars, ldVars, stVars>>

\* complete_stores ends with set_complete
CompleteStores(header_size, size_in_bytes) ==
  /\ ~initNode.complete
  /\ LET r == complete_stores(initNode.stores, header_size, size_in_bytes, initFlags)
     IN /\ initNode' = [complete |-> TRUE, stores |-> r.stores]
        /\ initLast' = [NoInitLast EXCEPT
                          !.op = "complete_stores", !.ok = ~r.failed,
                          !.before = initNode.stores, !.tiled = r.tiled,
                          !.zeroed = r.zeroed]
  /\ UNCHANGED <<initFlags, mmVars, ldVars, stVars>>

\* AllocateNode::maybe_set_complete
MaybeSetComplete ==
  /\ initNode' = IF initNode.complete THEN initNode
                 ELSE [complete |-> remove_extra_zeroes(initNode.stores) = <<>>,
                       stores |-> remove_extra_zeroes(initNode.stores)]
  /\ initLast' = [NoInitLast EXCEPT
                    !.op = "maybe_set_complete",
                    !.ok = ~initNode.complete /\
                           remove_extra_zeroes(initNode.stores) = <<>>]
  /\ UNCHANGED <<initFlags, mmVars, ldVars, stVars>>

InitInit ==
  /\ initNode = NoInit
  /\ initFlags \in InitFlags
  /\ initLast = NoInitLast
  /\ LdIdle
  /\ MMIdle
  /\ StIdle

InitNext ==
  \/ \E st \in InitStores : \E other_use \in OtherUses(st) : CaptureStore(st, other_use)
  \/ CompleteStores(minimum_header_size, ObjectSize)
  \/ MaybeSetComplete

SpecInit == InitInit /\ [][InitNext]_vars

(***************************************************************************)
(* The memory of the object as the stores leave it.  WriteStore is the     *)
(* store instruction of the platform; the stores under a store execute     *)
(* before it.  mem[a + 1] is the byte at offset a.                         *)
(***************************************************************************)
WriteStore(mem, st, little) ==
  Inputs([a \in 1 .. Len(mem) |->
            IF st.kind = "Store" /\ st.off < a /\ a <= st.off + memory_size(st.opc)
            THEN (IF little THEN SigByte(st, a - 1 - st.off)
                  ELSE SigByte(st, st.off + memory_size(st.opc) - a))
            ELSE mem[a]],
         Len(mem))

\* a chain lists its newest store first
RECURSIVE WriteChain(_, _, _)
WriteChain(mem, chain, little) ==
  IF chain = <<>> THEN mem
  ELSE WriteStore(WriteChain(mem, Tail(chain), little), Head(chain), little)

RECURSIVE WriteAll(_, _, _)
WriteAll(mem, stores, little) ==
  IF stores = <<>> THEN mem
  ELSE WriteAll(WriteChain(mem, <<Head(stores)>> \o Head(stores).under, little),
                Tail(stores), little)

Extent(st) ==
  IF st.kind = "Store" THEN st.off .. (st.off + memory_size(st.opc) - 1) ELSE {}

WrittenBy(stores) ==
  UNION { Extent(stores[i]) \cup
          UNION { Extent(stores[i].under[k]) : k \in 1 .. Len(stores[i].under) } :
          i \in 1 .. Len(stores) }

(***************************************************************************)
(* C4.  While the InitializeNode is incomplete, after any sequence of      *)
(* captures (a capture at an offset that already holds a captured store    *)
(* included), the captured stores are ordered by non-decreasing offset and *)
(* do not overlap: each one starts at or after the end (offset + size) of  *)
(* every one before it, and every other input is the zero memory.          *)
(***************************************************************************)
C4_CapturedSane ==
  ~initNode.complete =>
     /\ \A i \in 1 .. Len(initNode.stores) :
           initNode.stores[i] = zmem \/ get_store_offset(initNode.stores[i]) >= 0
     /\ \A i, k \in 1 .. Len(initNode.stores) :
           (i < k /\ initNode.stores[i] # zmem /\ initNode.stores[k] # zmem) =>
              initNode.stores[i].off + memory_size(initNode.stores[i].opc)
                 <= initNode.stores[k].off

\* three stores are held, the last capture was at an offset that already held
\* a store, and the older store is kept under the new one
C4_Witness ==
  /\ ~initNode.complete
  /\ Len(remove_extra_zeroes(initNode.stores)) >= 3
  /\ initLast.op = "capture_store" /\ initLast.ok /\ initLast.ip = 1
  /\ \E i \in 1 .. Len(initNode.stores) : initNode.stores[i].under # <<>>

(***************************************************************************)
(* C5.  The InitializeNode starts Incomplete; complete_stores leaves it    *)
(* Complete; once Complete it never is Incomplete again, its captured      *)
(* stores never change, and every later request is refused:                *)
(* captured_store_insertion_point fails, capture_store returns no store,   *)
(* find_captured_store returns no answer.                                  *)
(***************************************************************************)
C5_CompleteIsFinal ==
  /\ ~initNode.complete
  /\ [][/\ initLast'.op = "complete_stores" => initNode'.complete
        /\ initNode.complete =>
             /\ initNode'.complete
             /\ initNode'.stores = initNode.stores
             /\ initLast'.ip = 0
             /\ ~initLast'.ok]_vars
  /\ [](initNode.complete =>
          \A start \in 0 .. (ObjectSize - 1), size_in_bytes \in {0, 1, 2, 4, 8} :
             /\ captured_store_insertion_point(initNode, start, size_in_bytes) = 0
             /\ find_captured_store(initNode, "A", start, size_in_bytes) = NullNode)

\* a store that an incomplete node would have captured is refused by a node
\* that completed with stores in it
C5_Witness ==
  /\ initNode.complete
  /\ initNode.stores # <<zmem>>
  /\ initLast.op = "capture_store" /\ initLast.fits /\ ~initLast.ok

(***************************************************************************)
(* C6.  After complete_stores with zeroing enabled (ReduceFieldZeroing or  *)
(* ReduceBulkZeroing, and the TLAB not pre-zeroed), every byte from the    *)
(* header size to the object size that no store of the InitializeNode      *)
(* writes is written with zero by the zeroing complete_stores emitted, the *)
(* bytes around sub-word stores included.                                  *)
(***************************************************************************)
C6_GapsZeroed ==
  (/\ initLast.op = "complete_stores"
   /\ initFlags.ReduceFieldZeroing \/ initFlags.ReduceBulkZeroing
   /\ ~initFlags.ZeroTLAB)
  => \A b \in minimum_header_size .. (ObjectSize - 1) :
        b \in initLast.zeroed \/ b \in WrittenBy(initNode.stores)

\* a sub-word store of a value that is not constant sits in a word it does
\* not fill, the word was zeroed under it, and a word that stores fill was
\* not zeroed at all
C6_Witness ==
  /\ initLast.op = "complete_stores"
  /\ initFlags.ReduceFieldZeroing /\ ~initFlags.ZeroTLAB
  /\ \E st \in {initNode.stores[1]} \cup {initNode.stores[1].under[k] :
                                           k \in 1 .. Len(initNode.stores[1].under)} :
        /\ st.kind = "Store" /\ memory_size(st.opc) < BytesPerInt /\ ~st.val.con
        /\ \E b \in align_down(st.off, BytesPerInt) ..
                    (align_down(st.off, BytesPerInt) + BytesPerInt - 1) :
              b \notin WrittenBy(initNode.stores) /\ b \in initLast.zeroed
  /\ \E w \in {16, 24, 32} :
        \A b \in w .. (w + BytesPerInt - 1) :
           b \in WrittenBy(initNode.stores) /\ b \notin initLast.zeroed

(***************************************************************************)
(* C7.  coalesce_subword_stores preserves the initialized contents of the  *)
(* object byte for byte, in the byte order of the platform: the stores it  *)
(* leaves, applied in their order to zeroed memory, give every byte the    *)
(* value the stores it was given give it; and it never fails to re-insert  *)
(* a tile.                                                                 *)
(***************************************************************************)
C7_TilingPreserves ==
  initLast.op = "complete_stores" =>
     /\ initLast.ok
     /\ WriteAll(ZeroBytes(ObjectSize), initLast.tiled, initFlags.little)
          = WriteAll(ZeroBytes(ObjectSize), initLast.before, initFlags.little)

\* a tile took the place of two or more constant stores and is followed by a
\* store of a value that is not constant, which overwrites one of its bytes
C7_Witness ==
  /\ initLast.op = "complete_stores"
  /\ Len(initLast.tiled) = 2
  /\ Len(remove_extra_zeroes(initLast.before)) = 4
  /\ initLast.tiled[1].val.con /\ ~initLast.tiled[2].val.con
  /\ Extent(initLast.tiled[2]) \subseteq Extent(initLast.tiled[1])

(***************************************************************************)
(* C11: a load whose memory input is the memory projection of an Allocate  *)
(* sees the zero of its basic type exactly when its base is the result of  *)
(* that Allocate and its offset is at or beyond minimum_header_size, and   *)
(* Identity then replaces the load by that zero; at an offset inside the   *)
(* header, or with a base that is not the result of that Allocate, the     *)
(* load sees no value and Identity returns the load itself.                *)
(***************************************************************************)
C11_ZeroObjectRead ==
  (ldRes.op = "Identity" /\ ldMem[1].kind = "AllocProj") =>
     IF Ideal_allocation(ld.base) = ldMem[1].base /\ ld.off # OffsetBot /\
        ld.off >= minimum_header_size
     THEN Seen = intcon(0) /\ ldRes.node = [self |-> FALSE, val |-> intcon(0)]
     ELSE Seen = NoVal /\ ldRes.node = KeepLoad

\* a load of the field at offset 16 of the fresh object A has become zero
C11_Witness ==
  /\ ldRes.op = "Identity"
  /\ ldMem[1] = zero_memory("A")
  /\ ld.base = "A"
  /\ ld.off = 16
  /\ ldRes.node = [self |-> FALSE, val |-> intcon(0)]

\* loads of the mark word of A and of a field of the other fresh object B
\* over the fresh memory of A stay as they are
C11_WitnessNotFolded ==
  /\ ldRes.op = "Identity"
  /\ ldMem[1] = zero_memory("A")
  /\ \/ (ld.base = "A" /\ ld.off = 8)
     \/ (ld.base = "B" /\ ld.off = 12)
  /\ ldRes.node = KeepLoad

\* the bytes a memory access at 'off' of 'size' bytes touches
ByteRange(off, size) == off .. (off + size - 1)

\* the store at position i of the chain was walked past on the offset test
\* (lines 722-735): the first test that lets the walk advance
PassedOnOffsets(l, chain, i) ==
  /\ chain[i].kind = "Store"
  /\ i \in ldRes.fps.walked
  /\ chain[i].off # l.off
  /\ chain[i].off # OffsetBot
  /\ OffsetsIndependent(chain[i].off, memory_size(chain[i].opc), l.off, memory_size(l.opc))

(***************************************************************************)
(* C12 (as claimed): every store find_previous_store walks past on the     *)
(* offset test is at the same base as the load, and its byte range is      *)
(* disjoint from the load's.                                               *)
(***************************************************************************)
C12_OffsetTestSameBase ==
  ldRes.op = "find_previous_store" =>
    \A i \in 1 .. Len(ldMem) :
      PassedOnOffsets(ld, ldMem, i) =>
        /\ ldMem[i].base = ld.base
        /\ ByteRange(ldMem[i].off, memory_size(ldMem[i].opc))
             \cap ByteRange(ld.off, memory_size(ld.opc)) = {}

(***************************************************************************)
(* C12 (amended): a store find_previous_store walks past on the offset     *)
(* test has a byte range disjoint from the load's, and is at the same base *)
(* as the load when the address of the load or of the store may be raw;    *)
(* when neither may be raw the base is not compared.  A store the walk     *)
(* reaches whose base is known, at the load's base when either address may *)
(* be raw, and whose constant offset range is disjoint from the load's, is *)
(* walked past; a store whose range overlaps the load's is not walked past *)
(* on this test.                                                           *)
(***************************************************************************)
C12_OffsetTest ==
  ldRes.op = "find_previous_store" =>
    \A i \in 1 .. Len(ldMem) :
      LET st       == ldMem[i]
          disjoint == ByteRange(st.off, memory_size(st.opc))
                        \cap ByteRange(ld.off, memory_size(ld.opc)) = {}
          raw      == check_if_adr_maybe_raw(ld.base) \/ check_if_adr_maybe_raw(st.base)
      IN /\ PassedOnOffsets(ld, ldMem, i) => disjoint /\ (raw => st.base = ld.base)
         /\ (/\ st.kind = "Store"
             /\ ld.off # OffsetBot
             /\ \A j \in 1 .. (i - 1) : j \in ldRes.fps.walked
             /\ st.base # "none"
             /\ raw => st.base = ld.base
             /\ st.off # OffsetBot
             /\ disjoint) => i \in ldRes.fps.walked

\* a load at offset 16 of A has walked past a store at offset 0 of A
C12_Witness ==
  /\ ldRes.op = "find_previous_store"
  /\ ld.base = "A"
  /\ ld.off = 16
  /\ Len(ldMem) >= 1
  /\ ldMem[1].kind = "Store"
  /\ ldMem[1].base = "A"
  /\ ldMem[1].off = 0
  /\ PassedOnOffsets(ld, ldMem, 1)

\* the first memory state of the chain the walk did not walk past: the one
\* it stopped at, 0 when it walked past the whole chain or never started
StoppedAt ==
  IF ld.off = OffsetBot THEN 0
  ELSE IF \A i \in 1 .. Len(ldMem) : i \in ldRes.fps.walked THEN 0
  ELSE CHOOSE i \in 1 .. Len(ldMem) :
         i \notin ldRes.fps.walked /\ \A j \in 1 .. (i - 1) : j \in ldRes.fps.walked

(***************************************************************************)
(* C13: when find_previous_store returns a Store, it is the store the walk *)
(* stopped at and its base and offset are the load's; when the walk stops  *)
(* at a store whose base or offset is not the load's (one it could not     *)
(* prove independent: overlapping at another offset, at an unknown offset, *)
(* at an inscrutable or an unrelated raw base), or at a memory state of a  *)
(* kind it does not recognize, it returns null.                            *)
(***************************************************************************)
C13_ExactOrNull ==
  ldRes.op = "find_previous_store" =>
    /\ ldRes.fps.node.kind \in {"Store", "InitProj", "null"}
    /\ ldRes.fps.node.kind = "Store" =>
         /\ ldRes.fps.at = StoppedAt
         /\ ldRes.fps.node = ldMem[StoppedAt]
         /\ ldRes.fps.node.base = ld.base
         /\ ldRes.fps.node.off = ld.off
    /\ StoppedAt = 0 => ldRes.fps.node = NullNode
    /\ StoppedAt # 0 =>
         LET mem == ldMem[StoppedAt]
         IN /\ (mem.kind = "Store" /\ (mem.base # ld.base \/ mem.off # ld.off))
                 => ldRes.fps.node = NullNode
            /\ mem.kind \notin {"Store", "InitProj"} => ldRes.fps.node = NullNode

\* the walk has passed an independent store and stopped, with no answer, at
\* a long store at offset 8 that overlaps the int load at offset 12
C13_Witness ==
  /\ ldRes.op = "find_previous_store"
  /\ ld.off = 12
  /\ ld.opc = "LoadI"
  /\ StoppedAt = 2
  /\ ldMem[2].kind = "Store"
  /\ ldMem[2].base = ld.base
  /\ ldMem[2].off = 8
  /\ ldMem[2].opc = "StoreL"
  /\ ldRes.fps.node = NullNode

\* the walk has stopped, with no answer, at a memory state it does not
\* recognize, and at a store to an unrelated raw address
C13_WitnessOther ==
  /\ ldRes.op = "find_previous_store"
  /\ StoppedAt = 1
  /\ \/ ldMem[1].kind = "Other"
     \/ (ldMem[1].kind = "Store" /\ ldMem[1].base = "R" /\ ld.base = "P")
  /\ ldRes.fps.node = NullNode

\* the memory chain is cyclic and the load is proven independent of every
\* store on it, by the offset test or by detect_ptr_independence
IndependentCycle ==
  /\ Len(ldMem) >= 2
  /\ ldMem[Len(ldMem)].kind = "LoopBack"
  /\ ld.off # OffsetBot
  /\ \A i \in 1 .. (Len(ldMem) - 1) :
       /\ ldMem[i].kind = "Store"
       /\ CannotOverlap(ld, ldMem[i])

(***************************************************************************)
(* C14: find_previous_store returns after examining at most CycleLimit     *)
(* (50) memory states, whatever the chain; on a cyclic chain of stores     *)
(* each independent of the load it examines exactly 50 states, walking     *)
(* past each, and returns null.                                            *)
(***************************************************************************)
C14_BoundedWalk ==
  ldRes.op = "find_previous_store" =>
    /\ ldRes.fps.examined <= CycleLimit
    /\ IndependentCycle =>
         /\ ldRes.fps.examined = CycleLimit
         /\ ldRes.fps.node = NullNode
         /\ ldRes.fps.walked = 1 .. (Len(ldMem) - 1)

\* the walk went around a cycle of two stores to other offsets of the
\* load's base until the limit was hit
C14_Witness ==
  /\ ldRes.op = "find_previous_store"
  /\ IndependentCycle
  /\ Len(ldMem) = 3
  /\ ldMem[3] = LoopBack(2)
  /\ ldMem[1].base = ld.base
  /\ ldMem[2].base = ld.base
  /\ ldRes.fps.examined = CycleLimit
  /\ ldRes.fps.node = NullNode

(***************************************************************************)
(* C15: memory_at(i) is the input at i when i is below req() and that      *)
(* input is not the empty sentinel, and the base otherwise.  A step        *)
(* set_memory_at(i, n) with n not the empty sentinel leaves memory_at(i)   *)
(* equal to n; when n is the base the slot at i holds the sentinel         *)
(* afterwards and the node has not grown; memory_at(j) for j # i, the base *)
(* and the other merges are as before.                                     *)
(***************************************************************************)
C15_SliceAccess ==
  /\ [](\A m \in MergeMems, i \in AliasIdxs :
          memory_at(mm, m, i) =
            IF i < req(mm, m) /\ in(mm, m, i) # make_empty_memory
            THEN in(mm, m, i) ELSE base_memory(mm, m))
  /\ [][\A m \in MergeMems, i \in AliasIdxs, n \in MemNodes \ {make_empty_memory} :
          (/\ n # m
           /\ mmOps' = mmOps + 1
           /\ mmLast'.op = "set_memory_at"
           /\ mmLast'.node = m
           /\ mm' = set_memory_at(mm, m, i, n))
            => /\ memory_at(mm', m, i) = n
               /\ \A j \in AliasIdxs \ {i} : memory_at(mm', m, j) = memory_at(mm, m, j)
               /\ base_memory(mm', m) = base_memory(mm, m)
               /\ n = base_memory(mm, m) =>
                    /\ req(mm', m) = req(mm, m)
                    /\ i < req(mm', m) => in(mm', m, i) = make_empty_memory
               /\ \A o \in MergeMems \ {m} : mm'[o] = mm[o]]_vars

\* set_memory_at has grown a merge to hold the slice X at the index beyond
\* its constructed length, and its other slice still reads the base
C15_Witness ==
  /\ mmLast.op = "set_memory_at"
  /\ req(mm, mmLast.node) = AliasIdxRaw + 2
  /\ in(mm, mmLast.node, AliasIdxRaw + 1) = "X"
  /\ in(mm, mmLast.node, AliasIdxRaw) = make_empty_memory
  /\ base_memory(mm, mmLast.node) = "W"
  /\ memory_at(mm, mmLast.node, AliasIdxRaw) = "W"

\* Ideal has just run on the merge m, whose base was a MergeMem
IdealOnStacked(m) ==
  /\ mmOps' = mmOps + 1
  /\ mmLast'.op = "Ideal"
  /\ mmLast'.node = m
  /\ is_MergeMem(base_memory(mm, m))

\* the merge m overrides the slice i locally
Overrides(g, m, i) == i < req(g, m) /\ in(g, m, i) # make_empty_memory

\* the memory state n is live and no path of inputs from it leads back into
\* a cycle of merges (d bounds the depth of the merges below n)
RECURSIVE Sound(_, _, _)
Sound(g, n, d) ==
  \/ ~is_MergeMem(n)
  \/ /\ d > 0
     /\ base_memory(g, n) # make_empty_memory
     /\ \A k \in AliasIdxBot .. (req(g, n) - 1) : Sound(g, in(g, n, k), d - 1)

\* the memory state that the slice i of n stands for, reading through the
\* merges below
RECURSIVE Effective(_, _, _, _)
Effective(g, n, i, d) ==
  IF ~is_MergeMem(n) THEN n
  ELSE IF d = 0 THEN "cycle"
  ELSE Effective(g, memory_at(g, n, i), i, d - 1)

(***************************************************************************)
(* C16 (as claimed): an Ideal step on a merge M whose base is a merge N    *)
(* leaves M with N's base as its base; a slice M overrides reads the same  *)
(* node as before, and a slice M does not override reads what N reads for  *)
(* that index.                                                             *)
(***************************************************************************)
C16_FlattenAlways ==
  [][\A m \in MergeMems :
       IdealOnStacked(m) =>
         /\ base_memory(mm', m) = base_memory(mm, base_memory(mm, m))
         /\ \A i \in AliasIdxs :
              memory_at(mm', m, i) =
                IF Overrides(mm, m, i) THEN in(mm, m, i)
                ELSE memory_at(mm, base_memory(mm, m), i)]_vars

(***************************************************************************)
(* C16 (amended): an Ideal step on a live merge M below which the merges   *)
(* form no cycle, and whose base is a merge N, leaves M with N's base as   *)
(* its base; a slice M overrides keeps reading M's node, or that node's    *)
(* own slice for the index when the node is a merge, never N's; a slice M  *)
(* does not override reads N's slice for that index, or N's base when N    *)
(* has none; and the memory state every slice of M stands for is the same  *)
(* before and after.                                                       *)
(***************************************************************************)
C16_FlattenPreserves ==
  [][\A m \in MergeMems :
       (IdealOnStacked(m) /\ Sound(mm, m, Cardinality(MergeMems))) =>
         /\ base_memory(mm', m) = base_memory(mm, base_memory(mm, m))
         /\ \A i \in AliasIdxs :
              /\ memory_at(mm', m, i) =
                   IF ~Overrides(mm, m, i) THEN memory_at(mm, base_memory(mm, m), i)
                   ELSE IF is_MergeMem(in(mm, m, i)) THEN memory_at(mm, in(mm, m, i), i)
                   ELSE in(mm, m, i)
              /\ Effective(mm', m, i, Cardinality(MergeMems))
                   = Effective(mm, m, i, Cardinality(MergeMems))]_vars

\* Ideal has flattened M1 over M3: M1 now has M3's base W as its base, keeps
\* its own slice X at Raw and has taken over the slice X of M3 at Raw + 1
C16_Witness ==
  /\ mmLast.op = "Ideal"
  /\ mmLast.node = "M1"
  /\ mmLast.progress
  /\ mm["M1"] = <<top, "W", "X", "X">>
  /\ mm["M3"] = <<top, "W", top, "X">>

\* Ideal has just run on the merge m, whose base was not the empty sentinel
IdealOnLive(m) ==
  /\ mmOps' = mmOps + 1
  /\ mmLast'.op = "Ideal"
  /\ mmLast'.node = m
  /\ base_memory(mm, m) # make_empty_memory

(***************************************************************************)
(* C17 (as claimed): after an Ideal step on a merge with a non-empty base, *)
(* neither the base nor any slice slot of the merge is the merge itself.   *)
(***************************************************************************)
C17_NoSelfReference ==
  [][\A m \in MergeMems :
       IdealOnLive(m) =>
         \A k \in AliasIdxBot .. (req(mm', m) - 1) : in(mm', m, k) # m]_vars

(***************************************************************************)
(* C17 (amended): after an Ideal step on a merge with a non-empty base,    *)
(* the base is not the merge itself, and a base that was the merge itself  *)
(* is the empty sentinel and progress is reported; every slice slot that   *)
(* was the merge itself is the empty sentinel; a slice slot that is the    *)
(* merge itself afterwards was not before (the step took it over from a    *)
(* merge below) and progress is reported, so that after a step that        *)
(* reports no progress no input of the merge is the merge itself.          *)
(***************************************************************************)
C17_SelfReferenceCut ==
  [][\A m \in MergeMems :
       IdealOnLive(m) =>
         /\ base_memory(mm', m) # m
         /\ base_memory(mm, m) = m =>
              base_memory(mm', m) = make_empty_memory /\ mmLast'.progress
         /\ \A k \in AliasIdxRaw .. (req(mm, m) - 1) :
              in(mm, m, k) = m => in(mm', m, k) = make_empty_memory
         /\ \A k \in AliasIdxRaw .. (req(mm', m) - 1) :
              in(mm', m, k) = m =>
                /\ mmLast'.progress
                /\ k < req(mm, m) => in(mm, m, k) # m
         /\ ~mmLast'.progress =>
              \A k \in AliasIdxBot .. (req(mm', m) - 1) : in(mm', m, k) # m]_vars

\* a node replacement had put M1 in the place of X everywhere, also in the
\* slice of M1 itself; Ideal on M1 has emptied that slice and reported
\* progress, and M1 is still live
C17_Witness ==
  /\ mmOps = 2
  /\ mmLast.op = "Ideal"
  /\ mmLast.node = "M1"
  /\ mmLast.progress
  /\ mm["M1"] = <<top, "W", top, top>>
  /\ in(mm, "M2", AliasIdxRaw) = "M1"
  /\ mm["M3"] = <<top, "W", top, "M1">>

(***************************************************************************)
(* StoreNode::Ideal and StoreNode::Identity on a store made over a memory  *)
(* chain.  A state of the chain is [n, outcnt]: the node and the number of *)
(* its uses, the state above it (or the store made over the chain)         *)
(* included.  Two values are the same node when they are equal; two        *)
(* addresses are the same node when base, offset and cast are equal.       *)
(***************************************************************************)
MaxStChain == 3

Nodes(chain) == [k \in 1 .. Len(chain) |-> chain[k].n]

\* st->in(MemNode::Address)->eqv_uncast(address)
same_address(a, b) == a.base = b.base /\ a.off = b.off /\ a.cast = b.cast

outcnt_is_one_always(e) == TRUE

\* st->outcnt() == 1
outcnt_is_one(e) == e.outcnt = 1

\* the loop of "Back-to-back stores to same address": the position of the
\* store to fold away, 0 when there is none
RECURSIVE back_to_back(_, _, _)
back_to_back(this, chain, i) ==
  IF i > Len(chain) THEN 0
  ELSE IF ~(chain[i].n.kind = "Store" /\ outcnt_is_one(chain[i])) THEN 0
  ELSE IF same_address(chain[i].n, this) /\
          memory_size(chain[i].n.opc) <= memory_size(this.opc)
  THEN i
  ELSE back_to_back(this, chain, i + 1)

\* use->set_req_X(MemNode::Memory, st->in(MemNode::Memory)) for st at i
Bypass(chain, i) == SubSeq(chain, 1, i - 1) \o SubSeq(chain, i + 1, Len(chain))

\* the capture of the store by the Initialize whose projection is its memory
\* the control of a store: the control projection of the Initialize of "A",
\* or a branch of a test that follows it
StCtls == {"InitCtl", "IfTrue"}

can_capture_store_anyControl(st, ctl, mem) ==
  IF ~(mem.kind = "InitProj" /\ mem.base = "A") THEN 0
  ELSE can_capture_store(st)

\* can_capture_store of the Initialize of "A", with its checks on the control
\* and the memory input of the store
can_capture_store_inputs(st, ctl, mem) ==
  IF ctl # "InitCtl" THEN 0
  ELSE IF ~(mem.kind = "InitProj" /\ mem.base = "A") THEN 0
  ELSE can_capture_store(st)

StoreCapture(this, ctl, chain, rfz, other_use) ==
  IF rfz /\ chain # <<>> /\ chain[1].n.kind = "InitProj" /\
     can_capture_store_inputs(this, ctl, chain[1].n) > 0
  THEN capture_store(chain[1].n.init, this,
                     can_capture_store_inputs(this, ctl, chain[1].n), other_use)
  ELSE [init |-> NoInit, ok |-> FALSE]

\* an Ideal that makes the edge for the raw store before it asks whether the
\* store can be captured
StoreIdeal_edgeFirst(this, ctl, chain, rfz, other_use) ==
  IF chain[1].n.kind = "InitProj"
  THEN [chain |-> <<[chain[1] EXCEPT
                       !.n.init.stores = Append(chain[1].n.init.stores, zmem)]>>
                  \o Tail(chain),
        removed |-> 0, captured |-> FALSE, progress |-> FALSE]
  ELSE [chain |-> chain, removed |-> 0, captured |-> FALSE, progress |-> FALSE]

\* the chain afterwards, the position of the store folded away, whether the
\* Initialize captured the store, and whether Ideal returned a node
StoreIdeal(this, ctl, chain, rfz, other_use) ==
  IF back_to_back(this, chain, 1) # 0
  THEN [chain |-> Bypass(chain, back_to_back(this, chain, 1)),
        removed |-> back_to_back(this, chain, 1), captured |-> FALSE,
        progress |-> TRUE]
  ELSE IF StoreCapture(this, ctl, chain, rfz, other_use).ok
  THEN [chain |-> <<[chain[1] EXCEPT
                       !.n.init = StoreCapture(this, ctl, chain, rfz, other_use).init]>>
                  \o Tail(chain),
        removed |-> 0, captured |-> TRUE, progress |-> TRUE]
  ELSE [chain |-> chain, removed |-> 0, captured |-> FALSE, progress |-> FALSE]

ZeroRule_anyMemory(this, chain, rfz) == rfz /\ is_zero_type(this.val)

\* "Store of zero anywhere into a freshly-allocated object?"
ZeroRule(this, chain, rfz) ==
  /\ rfz
  /\ is_zero_type(this.val)
  /\ \/ chain[1].n.kind = "AllocProj"
     \/ LET prev_mem == find_previous_store(this, Nodes(chain)).node
        IN /\ prev_mem # NullNode
           /\ can_see_stored_value(this, prev_mem) # NoVal
           /\ can_see_stored_value(this, prev_mem) = this.val

\* the node Identity returns, this or mem, and the rule that made it mem
StoreIdentity(this, chain, rfz) ==
  IF /\ chain[1].n.kind = "Store"
     /\ same_address(chain[1].n, this)
     /\ chain[1].n.val = this.val
     /\ chain[1].n.opc = this.opc
  THEN [result |-> "mem", rule |-> "same value"]
  ELSE IF ZeroRule(this, chain, rfz)
  THEN [result |-> "mem", rule |-> "zero"]
  ELSE [result |-> "this", rule |-> "none"]

(***************************************************************************)
(* The store machine.  The parser puts memory states on the chain, each    *)
(* store with one use or two; then a store is made over the chain and      *)
(* Ideal or Identity runs on it.  The memory projection of the Allocate "A" has     *)
(* only the raw stores that initialize A above it.                         *)
(***************************************************************************)
StStores ==
  {StoreNode(a[1], a[2], a[3], intcon(a[4]), a[5]) :
     a \in {<<"A", 12, "StoreI", 0, FALSE>>, <<"A", 12, "StoreI", 5, FALSE>>,
            <<"A", 16, "StoreI", 0, FALSE>>, <<"P", 12, "StoreI", 0, FALSE>>,
            <<"P", 12, "StoreI", 5, FALSE>>, <<"P", 12, "StoreB", 5, FALSE>>}}

StProjs ==
  {ProjNode("InitProj", "A", [complete |-> c, stores |-> <<>>]) : c \in BOOLEAN}
  \cup {ProjNode("InitProj", "A",
                 [complete |-> FALSE,
                  stores |-> <<StoreNode("A", 12, "StoreI", intcon(5), FALSE)>>]),
        zero_memory("A"), ProjNode("Other", null, NoInit)}

\* stores an Initialize refuses: in the header, at the tracking limit,
\* misaligned, to another allocation, at an offset that is not a constant
StOddStores ==
  {StoreNode(a[1], a[2], a[3], intcon(5), FALSE) :
     a \in {<<"A", 8, "StoreI">>, <<"A", 48, "StoreI">>, <<"A", 14, "StoreI">>,
            <<"B", 12, "StoreI">>, <<"A", OffsetBot, "StoreI">>}}

OverFresh(chain) == chain # <<>> /\ chain[Len(chain)].n.kind = "AllocProj"

StEmit(n, k) ==
  /\ Len(stMem) < MaxStChain
  /\ stTop = NullNode
  /\ n.kind = "AllocProj" => stMem = <<>>
  /\ n.kind # "Store" => k = 2
  /\ OverFresh(stMem) => (n.kind = "Store" /\ n.base = "A" /\ ~n.cast)
  /\ stMem' = <<[n |-> n, outcnt |-> k]>> \o stMem
  /\ UNCHANGED <<stTop, stRes, mgVars, icVars, mmVars, ldVars, initVars>>

StIdeal(this, ctl, rfz, other_use) ==
  /\ stMem # <<>>
  /\ stTop \in {NullNode, this}
  /\ OverFresh(stMem) => this.base = "A" /\ ~this.cast
  /\ stTop' = this
  /\ stMem' = StoreIdeal(this, ctl, stMem, rfz, other_use).chain
  /\ stRes' = [NoStRes EXCEPT
                 !.op = "Ideal", !.before = stMem, !.ctl = ctl,
                 !.removed = StoreIdeal(this, ctl, stMem, rfz, other_use).removed,
                 !.captured = StoreIdeal(this, ctl, stMem, rfz, other_use).captured,
                 !.progress = StoreIdeal(this, ctl, stMem, rfz, other_use).progress]
  /\ UNCHANGED <<mgVars, icVars, mmVars, ldVars, initVars>>

StIdentity(this, rfz) ==
  /\ stMem # <<>>
  /\ stTop \in {NullNode, this}
  /\ OverFresh(stMem) => this.base = "A" /\ ~this.cast
  /\ stTop' = this
  /\ stRes' = [NoStRes EXCEPT
                 !.op = "Identity", !.before = stMem,
                 !.result = StoreIdentity(this, stMem, rfz).result,
                 !.rule = StoreIdentity(this, stMem, rfz).rule,
                 !.progress = rfz]
  /\ UNCHANGED <<stMem, mgVars, icVars, mmVars, ldVars, initVars>>

StInit == StIdle /\ LdIdle /\ MMIdle /\ InitIdle

StNext ==
  \/ \E n \in StStores \cup StProjs, k \in {1, 2} : StEmit(n, k)
  \/ \E this \in StStores \cup StOddStores, ctl \in StCtls, rfz \in BOOLEAN,
        other_use \in BOOLEAN :
        StIdeal(this, ctl, rfz, other_use)
  \/ \E this \in StStores, rfz \in BOOLEAN : StIdentity(this, rfz)

SpecStore == StInit /\ [][StNext]_vars

\* the position of the nearest store of the chain at the address of the
\* store 'this' (0 when there is none) when every state down to it is a store
\* with no other use than the state above it
RECURSIVE NearestSame(_, _, _)
NearestSame(this, chain, i) ==
  IF i > Len(chain) THEN 0
  ELSE IF chain[i].n.kind # "Store" \/ chain[i].outcnt # 1 THEN 0
  ELSE IF same_address(chain[i].n, this) THEN i
  ELSE NearestSame(this, chain, i + 1)

(***************************************************************************)
(* C18 (as claimed): when the chain above the store leads, through stores  *)
(* with no other use, to a store to the same address with no other use,    *)
(* Ideal removes that store and leaves the rest of the chain as it was;    *)
(* a store with another use is never removed.                              *)
(***************************************************************************)
C18_EarlierStoreRemoved ==
  stRes.op = "Ideal" =>
    /\ NearestSame(stTop, stRes.before, 1) # 0 =>
         /\ stRes.removed = NearestSame(stTop, stRes.before, 1)
         /\ stMem = Bypass(stRes.before, stRes.removed)
    /\ stRes.removed # 0 => stRes.before[stRes.removed].outcnt = 1

(***************************************************************************)
(* C18 (amended): Ideal removes the nearest store to the same address that *)
(* is not wider than the store, when that store and every state above it   *)
(* are stores with no other use: the chain afterwards is the chain before  *)
(* without it, and progress is reported.  A store that is wider than the   *)
(* later store, that has another use, or that lies below a state with      *)
(* another use or below a state that is not a store, is not removed.       *)
(***************************************************************************)
C18_BackToBack ==
  stRes.op = "Ideal" =>
    LET before == stRes.before
        fits   == {i \in 1 .. Len(before) :
                     /\ \A j \in 1 .. i : before[j].n.kind = "Store" /\ before[j].outcnt = 1
                     /\ same_address(before[i].n, stTop)
                     /\ memory_size(before[i].n.opc) <= memory_size(stTop.opc)}
    IN /\ fits # {} =>
            /\ stRes.removed \in fits
            /\ \A i \in fits : stRes.removed <= i
            /\ stMem = Bypass(before, stRes.removed)
            /\ stRes.progress
       /\ fits = {} => stRes.removed = 0
       /\ stRes.removed = 0 /\ ~stRes.captured => stMem = before
       /\ stRes.removed # 0 => before[stRes.removed].outcnt = 1

\* a store of 5 to P+12 was made over a store to A+16 over an earlier store
\* to P+12, neither with another use: Ideal has removed the earlier store
C18_Witness ==
  /\ stRes.op = "Ideal"
  /\ stTop = StoreNode("P", 12, "StoreI", intcon(5), FALSE)
  /\ Len(stRes.before) = 3
  /\ stRes.before[1].n = StoreNode("A", 16, "StoreI", intcon(0), FALSE)
  /\ stRes.before[2].n = StoreNode("P", 12, "StoreI", intcon(0), FALSE)
  /\ stRes.removed = 2
  /\ stMem = <<stRes.before[1], stRes.before[3]>>

\* the bytes the store 'this' writes are zero in the memory state at position
\* i of the chain: the state is fresh memory of the object stored into, a
\* store of zero that covers the bytes, an Initialize of the object whose
\* captured stores leave the bytes alone or cover them with zero, or a state
\* that cannot write the bytes above a state in which they are zero
RECURSIVE KnownZero(_, _, _)
KnownZero(this, chain, i) ==
  IF i > Len(chain) THEN FALSE
  ELSE IF chain[i].kind = "AllocProj" THEN chain[i].base = this.base
  ELSE IF chain[i].kind = "Store" /\ CannotOverlap(this, chain[i])
  THEN KnownZero(this, chain, i + 1)
  ELSE IF chain[i].kind = "Store"
  THEN /\ same_address(chain[i], this)
       /\ memory_size(chain[i].opc) >= memory_size(this.opc)
       /\ is_zero_type(chain[i].val)
  ELSE IF chain[i].kind = "InitProj" /\ ~MayAlias(this.base, chain[i].base)
  THEN KnownZero(this, chain, i + 1)
  ELSE IF chain[i].kind = "InitProj"
  THEN /\ chain[i].base = this.base
       /\ this.off >= minimum_header_size
       /\ \A k \in 1 .. Len(chain[i].init.stores) :
            LET s == chain[i].init.stores[k]
            IN \/ s.kind = "AllocProj"
               \/ /\ s.kind = "Store"
                  /\ ByteRange(s.off, memory_size(s.opc)) \cap
                     ByteRange(this.off, memory_size(this.opc)) = {}
               \/ /\ s.kind = "Store"
                  /\ s.off = this.off
                  /\ memory_size(s.opc) >= memory_size(this.opc)
                  /\ is_zero_type(s.val)
  ELSE FALSE

C19_WitnessFresh ==
  /\ stRes.op = "Identity" /\ stRes.rule = "zero" /\ stRes.result = "mem"
  /\ stTop = StoreNode("A", 12, "StoreI", intcon(0), FALSE)
  /\ stRes.before[1].n = zero_memory("A")

\* a store of zero over an Initialize that captured a store of 5 to the same
\* bytes is kept, as is a store of zero when ReduceFieldZeroing is off
C19_WitnessKept ==
  /\ stRes.op = "Identity" /\ stRes.result = "this" /\ stRes.progress
  /\ stTop = StoreNode("A", 12, "StoreI", intcon(0), FALSE)
  /\ stRes.before[1].n.kind = "InitProj"
  /\ stRes.before[1].n.init.stores # <<>>

(***************************************************************************)
(* MergePrimitiveStores.  A value node is a constant, a node of int type   *)
(* ("X", "Y") or of long type ("L"), or a right shift of such a node by a  *)
(* constant; conv says it is under a ConvL2I and rev under a ReverseBytes  *)
(* ("S", "I" or "L").  A jint or jlong is its bytes, the least significant *)
(* first, so that 64-bit constants keep their width.                       *)
(***************************************************************************)
ValueNode(op, base, sh, conv, con) ==
  [op |-> op, base |-> base, sh |-> sh, conv |-> conv, con |-> con, rev |-> ""]

\* an int as a jlong: get_int() assigned to a jlong
Jlong(c) == [j \in 1 .. 8 |-> IF j <= 4 THEN Byte(c, j - 1) ELSE (IF c < 0 THEN 255 ELSE 0)]

ConI(c) == ValueNode("ConI", "", 0, FALSE, Jlong(c))
ConL(con) == ValueNode("ConL", "", 0, FALSE, con)
BaseNode(b) == ValueNode("Node", b, 0, FALSE, <<>>)
ShiftNode(op, b, sh) == ValueNode(op, b, sh, FALSE, <<>>)
ConvL2INode(n) == [n EXCEPT !.conv = TRUE]

ShiftOps == {"RShiftI", "RShiftL", "URShiftI", "URShiftL"}

\* phase->type(n)->isa_long()
isa_long(n) ==
  IF n.rev # "" THEN n.rev = "L"
  ELSE ~n.conv /\ (n.op \in {"ConL", "RShiftL", "URShiftL"} \/
                   (n.op = "Node" /\ n.base = "L"))

BitAt(bytes, j) == (bytes[(j \div 8) + 1] \div (2 ^ (j % 8))) % 2

\* bit j of bytes >> sh, sign-filled when arith
ShiftedBit(bytes, sh, arith, j) ==
  IF j + sh < 8 * Len(bytes) THEN BitAt(bytes, j + sh)
  ELSE IF arith THEN BitAt(bytes, 8 * Len(bytes) - 1) ELSE 0

ShiftRight(bytes, sh, arith) ==
  [k \in 1 .. Len(bytes) |->
     ShiftedBit(bytes, sh, arith, 8 * k - 8) + 2 * ShiftedBit(bytes, sh, arith, 8 * k - 7)
     + 4 * ShiftedBit(bytes, sh, arith, 8 * k - 6) + 8 * ShiftedBit(bytes, sh, arith, 8 * k - 5)
     + 16 * ShiftedBit(bytes, sh, arith, 8 * k - 4) + 32 * ShiftedBit(bytes, sh, arith, 8 * k - 3)
     + 64 * ShiftedBit(bytes, sh, arith, 8 * k - 2) + 128 * ShiftedBit(bytes, sh, arith, 8 * k - 1)]

OrByte(a, b) ==
  LET or(j) == IF BitAt(<<a>>, j) + BitAt(<<b>>, j) > 0 THEN 2 ^ j ELSE 0
  IN or(0) + or(1) + or(2) + or(3) + or(4) + or(5) + or(6) + or(7)

\* jlong operations of make_merged_input_value, on whole bytes
Shl(con, nbytes) == [j \in 1 .. 8 |-> IF j <= nbytes THEN 0 ELSE con[j - nbytes]]
Mask(con, nbytes) == [j \in 1 .. 8 |-> IF j <= nbytes THEN con[j] ELSE 0]
Or(a, b) == [j \in 1 .. 8 |-> OrByte(a[j], b[j])]

ReverseSeq(s) == [j \in 1 .. Len(s) |-> s[Len(s) + 1 - j]]

\* the bytes of the value the node n has at run time when the nodes X, Y, L
\* have the values env.X, env.Y, env.L: 4 bytes for an int, 8 for a long
EvalRaw(n, env) ==
  IF n.op \in {"ConI", "ConL"} THEN (IF n.op = "ConI" THEN SubSeq(n.con, 1, 4) ELSE n.con)
  ELSE IF n.op = "Node" THEN env[n.base]
  ELSE ShiftRight(env[n.base], n.sh, n.op \in {"RShiftI", "RShiftL"})

EvalConv(n, env) ==
  IF n.conv THEN SubSeq(EvalRaw(n, env), 1, 4) ELSE EvalRaw(n, env)

Eval(n, env) ==
  IF n.rev = "" THEN EvalConv(n, env)
  ELSE IF n.rev = "S"
  THEN <<EvalConv(n, env)[2], EvalConv(n, env)[1],
         IF EvalConv(n, env)[1] >= 128 THEN 255 ELSE 0,
         IF EvalConv(n, env)[1] >= 128 THEN 255 ELSE 0>>
  ELSE ReverseSeq(EvalConv(n, env))

\* a primitive store to the array: its opcode, its offset in the array, its
\* value, its control (ctl), the number of its uses (outcnt), whether one of
\* them is a MergeMem whose one use is an uncommon trap (trap), and whether
\* its control is the passing projection of a RangeCheck that sits right
\* under the control of its memory input and whose other projection leads
\* to the trap of that memory input (rc)
PrimStore(opc, off, val, ctl, rc) ==
  [opc |-> opc, off |-> off, val |-> val, ctl |-> ctl, rc |-> rc,
   outcnt |-> 0, trap |-> FALSE, mismatched |-> FALSE]

\* Detect pattern: n = base_out >> shift_out
is_con_RShift(n) ==
  IF n.op \in ShiftOps
  THEN [ok |-> n.sh >= 0, base |-> BaseNode(n.base), shift |-> n.sh]
  ELSE [ok |-> TRUE, base |-> [n EXCEPT !.conv = FALSE], shift |-> 0]

Abs(x) == IF x < 0 THEN -x ELSE x

find_adjacent_input_value_order(n1, n2, size, little) ==
  IF n1.op = "ConI" /\ n2.op = "ConI" THEN "Const"
  ELSE IF ~is_con_RShift(n2).ok THEN "NotAdjacent"
  ELSE IF ~is_con_RShift(n1).ok THEN "NotAdjacent"
  ELSE IF \/ is_con_RShift(n1).base # is_con_RShift(n2).base
          \/ Abs(is_con_RShift(n1).shift - is_con_RShift(n2).shift) # size * 8
          \/ is_con_RShift(n1).shift % (size * 8) # 0
  THEN "NotAdjacent"
  ELSE IF little
  THEN (IF is_con_RShift(n1).shift < is_con_RShift(n2).shift THEN "Platform" ELSE "Reverse")
  ELSE (IF is_con_RShift(n1).shift > is_con_RShift(n2).shift THEN "Platform" ELSE "Reverse")

is_adjacent_input_pair_anyOrder(n1, n2, size, value_order, plat) ==
  LET input_value_order == find_adjacent_input_value_order(n1, n2, size, plat.little)
  IN IF input_value_order = "NotAdjacent" THEN FALSE
     ELSE IF input_value_order = "Reverse" /\ (size # 1 \/ ~plat.reverse) THEN FALSE
     ELSE TRUE

is_adjacent_input_pair(n1, n2, size, value_order, plat) ==
  LET input_value_order == find_adjacent_input_value_order(n1, n2, size, plat.little)
  IN IF input_value_order = "NotAdjacent" THEN FALSE
     ELSE IF input_value_order = "Reverse" /\ (size # 1 \/ ~plat.reverse) THEN FALSE
     ELSE IF value_order = "Unknown" THEN TRUE
     ELSE value_order = input_value_order

\* MemPointer::is_adjacent_to_and_before: the stores go to the same array
\* and def ends where use begins
is_adjacent_to_and_before(def, use) == def.off + memory_size(def.opc) = use.off

is_adjacent_pair(use, def, value_order, plat) ==
  /\ is_adjacent_input_pair(def.val, use.val, memory_size(def.opc), value_order, plat)
  /\ is_adjacent_to_and_before(def, use)

is_compatible_store(store, other) == store.opc = other.opc

\* a check that does not count the uses of def_store
cfg_status_for_pair_anyUses(use, def) ==
  IF use.ctl = def.ctl THEN "SuccessNoRangeCheck"
  ELSE IF ~use.rc THEN "Failure"
  ELSE "SuccessWithRangeCheck"

cfg_status_for_pair(use, def) ==
  IF use.ctl = def.ctl
  THEN (IF def.outcnt > 1 THEN "Failure" ELSE "SuccessNoRangeCheck")
  ELSE IF def.outcnt # 2 THEN "Failure"
  ELSE IF ~def.trap THEN "Failure"
  ELSE IF ~use.rc THEN "Failure"
  ELSE "SuccessWithRangeCheck"

\* Status: the position of the store found (0 for none) and found_range_check
make_failure == [found |-> 0, rc |-> FALSE]

make_status(found, cfg_status) ==
  IF cfg_status = "Failure" THEN make_failure
  ELSE [found |-> found, rc |-> cfg_status = "SuccessWithRangeCheck"]

\* the store use of chain[i] is chain[i - 1]
find_use_store(store, chain, i) ==
  IF i > 1 /\ is_compatible_store(store, chain[i - 1])
  THEN make_status(i - 1, cfg_status_for_pair(chain[i - 1], chain[i]))
  ELSE make_failure

\* the memory input of chain[i] is chain[i + 1], or no store
find_def_store(store, chain, i) ==
  IF i < Len(chain) /\ is_compatible_store(store, chain[i + 1])
  THEN make_status(i + 1, cfg_status_for_pair(chain[i], chain[i + 1]))
  ELSE make_failure

find_adjacent_use_store(store, chain, i, value_order, plat) ==
  IF find_use_store(store, chain, i).found # 0 /\
     ~is_adjacent_pair(chain[i - 1], chain[i], value_order, plat)
  THEN make_failure
  ELSE find_use_store(store, chain, i)

find_adjacent_def_store(store, chain, i, value_order, plat) ==
  IF find_def_store(store, chain, i).found # 0 /\
     ~is_adjacent_pair(chain[i], chain[i + 1], value_order, plat)
  THEN make_failure
  ELSE find_def_store(store, chain, i)


RECURSIVE collect_from(_, _, _, _, _, _, _)
\* the loop of collect_merge_list: the size of the merge list
collect_from(store, chain, current, size, max_size, value_order, plat) ==
  IF size >= max_size THEN size
  ELSE IF find_adjacent_def_store(store, chain, current, value_order, plat).found = 0
  THEN size
  ELSE IF find_adjacent_def_store(store, chain, current, value_order, plat).rc
  THEN size + 1
  ELSE collect_from(store, chain, current + 1, size + 1, max_size, value_order, plat)

round_down_power_of_2(n) == IF n >= 8 THEN 8 ELSE IF n >= 4 THEN 4 ELSE IF n >= 2 THEN 2 ELSE 1

\* the size of the merge list before it is truncated
collected(chain, k, value_order, plat) ==
  collect_from(chain[k], chain, k, 1, 8 \div memory_size(chain[k].opc), value_order, plat)

collect_merge_list_dropNearest(chain, k, value_order, plat) ==
  SubSeq(chain,
         k + collected(chain, k, value_order, plat)
           - round_down_power_of_2(collected(chain, k, value_order, plat)),
         k - 1 + collected(chain, k, value_order, plat))

\* merge_list[1] is _store, merge_list[Len] the first store; the list is
\* truncated to a power of 2 by popping its end
collect_merge_list(chain, k, value_order, plat) ==
  SubSeq(chain, k,
         k - 1 + round_down_power_of_2(collected(chain, k, value_order, plat)))

merged_con_step_bigEndian(con, con_i, i, nbytes, little) ==
  Or(con, Shl(Mask(con_i, nbytes), i * nbytes))

\* one round of the loop over the constants, i counted from 0
merged_con_step(con, con_i, i, nbytes, little) ==
  IF little THEN Or(Shl(con, nbytes), Mask(con_i, nbytes))
  ELSE Or(con, Shl(Mask(con_i, nbytes), i * nbytes))

RECURSIVE merged_con(_, _, _, _)
merged_con(merge_list, i, con, little) ==
  IF i >= Len(merge_list) THEN con
  ELSE merged_con(merge_list, i + 1,
                  merged_con_step(con, merge_list[i + 1].val.con, i,
                                  memory_size(merge_list[1].opc), little),
                  little)

\* hi and lo after the two swaps
merged_hi(merge_list, value_order, little) ==
  IF little = (value_order = "Reverse")
  THEN merge_list[Len(merge_list)].val ELSE merge_list[1].val

merged_lo(merge_list, value_order, little) ==
  IF little = (value_order = "Reverse")
  THEN merge_list[1].val ELSE merge_list[Len(merge_list)].val

\* the base of the shifted values, NullNode for "return nullptr"
merged_base(merge_list, value_order, little) ==
  LET hi_base == is_con_RShift(merged_hi(merge_list, value_order, little)).base
      lo      == merged_lo(merge_list, value_order, little)
      look    == IF lo # hi_base /\ lo.conv THEN [lo EXCEPT !.conv = FALSE] ELSE lo
  IN IF look # hi_base THEN NullNode ELSE look

reverse_bytes(value, new_memory_size, value_order) ==
  IF value_order # "Reverse" THEN value
  ELSE IF new_memory_size = 8 THEN [value EXCEPT !.rev = "L"]
  ELSE IF new_memory_size = 4 THEN [value EXCEPT !.rev = "I"]
  ELSE [value EXCEPT !.rev = "S"]

make_merged_input_value(merge_list, value_order, plat) ==
  LET new_memory_size == memory_size(merge_list[1].opc) * Len(merge_list)
      value == IF merge_list[1].val.op = "ConI"
               THEN ConL(merged_con(merge_list, 0, Jlong(0), plat.little))
               ELSE merged_base(merge_list, value_order, plat.little)
      narrow == IF isa_long(value) /\ new_memory_size <= 4
                THEN ConvL2INode(value) ELSE value
  IN IF value = NullNode THEN NullNode
     ELSE reverse_bytes(narrow, new_memory_size, value_order)

make_merged_store(merge_list, merged_input_value) ==
  LET new_memory_size == memory_size(merge_list[1].opc) * Len(merge_list)
      first_store == merge_list[Len(merge_list)]
  IN [PrimStore(CASE new_memory_size = 2 -> "StoreC"
                  [] new_memory_size = 4 -> "StoreI"
                  [] new_memory_size = 8 -> "StoreL",
                first_store.off, merged_input_value, merge_list[1].ctl,
                merge_list[1].rc)
      EXCEPT !.mismatched = TRUE]

\* MergePrimitiveStores::run on the store at position k of the chain
run(chain, k, plat) ==
  IF chain[k].opc \notin {"StoreB", "StoreC", "StoreI"} THEN NoMgRes
  ELSE IF find_adjacent_use_store(chain[k], chain, k, "Unknown", plat).found # 0
  THEN NoMgRes
  ELSE IF find_adjacent_def_store(chain[k], chain, k, "Unknown", plat).found = 0
  THEN NoMgRes
  ELSE LET value_order == find_adjacent_input_value_order(
                            chain[k + 1].val, chain[k].val,
                            memory_size(chain[k].opc), plat.little)
           merge_list  == collect_merge_list(chain, k, value_order, plat)
           merged_input_value == make_merged_input_value(merge_list, value_order, plat)
           found == collected(chain, k, value_order, plat)
       IN IF merged_input_value = NullNode
          THEN [NoMgRes EXCEPT !.order = value_order, !.found = found]
          ELSE [NoMgRes EXCEPT !.order = value_order, !.found = found,
                               !.size = Len(merge_list),
                               !.merged = make_merged_store(merge_list,
                                                            merged_input_value)]

(***************************************************************************)
(* The merge machine.  The parser emits primitive stores to ascending      *)
(* offsets of one array, each over the one before; in the merge-stores     *)
(* phase MergePrimitiveStores runs on a store of the chain.                *)
(***************************************************************************)
MaxMgChain == 4

MgCons == <<18, -2, 4660, -32640, 86, 120, -102, 188>>

MgFirst ==
  {<<"StoreB", v>> : v \in {ConI(18), BaseNode("X"), ShiftNode("RShiftI", "X", 8),
                            ShiftNode("RShiftI", "X", 24), ShiftNode("URShiftI", "X", 24),
                            ShiftNode("RShiftI", "X", 4), ConvL2INode(BaseNode("L")),
                            ConvL2INode(ShiftNode("RShiftL", "L", 24))}}
  \cup {<<"StoreC", v>> : v \in {BaseNode("X"), ShiftNode("RShiftI", "X", 16), ConI(4660)}}
  \cup {<<"StoreI", v>> : v \in {ConI(-2), ConvL2INode(BaseNode("L")),
                                 ConvL2INode(ShiftNode("URShiftL", "L", 32))}}

Width(v) == IF v.base = "L" THEN 64 ELSE 32

\* the value of the next store of the source program
MgStep(v, step, bits, n) ==
  IF step = "con" THEN ConI(MgCons[n + 1])
  ELSE IF step = "other" THEN BaseNode("Y")
  ELSE IF step = "up"
  THEN [v EXCEPT !.op = IF v.op # "Node" THEN v.op
                        ELSE IF v.base = "L" THEN "RShiftL" ELSE "RShiftI",
                 !.sh = v.sh + bits]
  ELSE IF v.sh = bits THEN [v EXCEPT !.op = "Node", !.sh = 0]
  ELSE [v EXCEPT !.sh = v.sh - bits]

MgEmitFirst(opc, val) ==
  /\ mgChain = <<>>
  /\ mgRes = NoMgRes
  /\ mgChain' = <<PrimStore(opc, 0, val, 0, FALSE)>>
  /\ UNCHANGED <<mgPlat, mgRes, stMem, stTop, stRes, icVars, mmVars, ldVars, initVars>>

MaxMgLong == 8

MgEmitNext(opc, step, gap, how) ==
  /\ mgChain # <<>>
  /\ mgRes = NoMgRes
  /\ opc # mgChain[1].opc => step = "con" /\ gap = 0 /\ how = "same"
  /\ gap # 0 \/ how \in {"used", "if"} => step = "up"
  /\ step \in {"up", "down"} => mgChain[1].val.op \in ShiftOps \cup {"Node"}
  /\ step = "up" => mgChain[1].val.sh + 8 * memory_size(opc) < Width(mgChain[1].val)
  /\ step = "down" => mgChain[1].val.sh >= 8 * memory_size(opc)
  /\ mgChain' =
       <<PrimStore(opc, mgChain[1].off + memory_size(mgChain[1].opc) + gap,
                   MgStep(mgChain[1].val, step, 8 * memory_size(opc), Len(mgChain)),
                   IF how \in {"rc", "if"} THEN mgChain[1].ctl + 1 ELSE mgChain[1].ctl,
                   how = "rc"),
         [mgChain[1] EXCEPT !.outcnt = IF how = "same" THEN 1 ELSE 2,
                            !.trap = (how \in {"rc", "if"})]>>
       \o Tail(mgChain)
  /\ UNCHANGED <<mgPlat, mgRes, stMem, stTop, stRes, icVars, mmVars, ldVars, initVars>>

\* a further store of the same kind, right behind the last one
MgEmitMore(step) ==
  /\ Len(mgChain) < MaxMgLong
  /\ MgEmitNext(mgChain[1].opc, step, 0, "same")

MgRun(k) ==
  /\ k <= Len(mgChain)
  /\ mgRes' = [run(mgChain, k, mgPlat) EXCEPT !.op = "run", !.at = k]
  /\ UNCHANGED <<mgChain, mgPlat, stMem, stTop, stRes, icVars, mmVars, ldVars,
                 initVars>>

MgEmit(opc, step, gap, how) ==
  /\ Len(mgChain) < MaxMgChain
  /\ MgEmitNext(opc, step, gap, how)

MgInit ==
  /\ mgChain = <<>>
  /\ mgPlat \in [little : BOOLEAN, reverse : BOOLEAN]
  /\ mgRes = NoMgRes
  /\ stMem = <<>> /\ stTop = NullNode /\ stRes = NoStRes
  /\ IcIdle
  /\ LdIdle /\ MMIdle /\ InitIdle

MgNext ==
  \/ \E f \in MgFirst : MgEmitFirst(f[1], f[2])
  \/ \E opc \in {"StoreB", "StoreC", "StoreI"}, step \in {"up", "down", "con", "other"},
        gap \in {0, 1}, how \in {"same", "rc", "if", "used"} :
        MgEmit(opc, step, gap, how)
  \/ \E k \in 1 .. 2 : MgRun(k)

SpecMerge == MgInit /\ [][MgNext]_vars

\* long chains of stores of one kind under one control
MgNextLong ==
  \/ \E f \in MgFirst : MgEmitFirst(f[1], f[2])
  \/ \E step \in {"up", "down", "con"} : MgEmitMore(step)
  \/ MgRun(1)

SpecMergeLong == MgInit /\ [][MgNextLong]_vars

\* run-time values of the nodes X, Y and L, every byte different
MgEnvs ==
  {[X |-> <<129, 130, 131, 132>>, Y |-> <<17, 18, 19, 20>>,
    L |-> <<161, 162, 163, 164, 165, 166, 167, 168>>],
   [X |-> <<1, 2, 3, 4>>, Y |-> <<145, 146, 147, 148>>,
    L |-> <<33, 34, 35, 36, 37, 38, 39, 40>>]}

\* the byte the store st writes at address st.off + d
StoredByte(st, d, env, little) ==
  Eval(st.val, env)[SigIndex(d, memory_size(st.opc), little) + 1]

\* the stores the last run merged, the last store first
MergeList == SubSeq(mgChain, mgRes.at, mgRes.at + mgRes.size - 1)

Merged == mgRes.op = "run" /\ mgRes.size # 0

\* the merged store covers the merged stores, which lie side by side in
\* ascending order, and writes at every address the byte the store of the
\* list that covers the address wrote
SameBytes ==
  /\ memory_size(mgRes.merged.opc) = mgRes.size * memory_size(MergeList[1].opc)
  /\ mgRes.merged.off = MergeList[mgRes.size].off
  /\ \A i \in 1 .. mgRes.size :
       /\ MergeList[i].opc = MergeList[1].opc
       /\ MergeList[i].off =
            mgRes.merged.off + (mgRes.size - i) * memory_size(MergeList[1].opc)
       /\ \A d \in 0 .. (memory_size(MergeList[i].opc) - 1), env \in MgEnvs :
            StoredByte(mgRes.merged, MergeList[i].off + d - mgRes.merged.off, env,
                       mgPlat.little)
            = StoredByte(MergeList[i], d, env, mgPlat.little)

\* the stores of the list hold constants and the merged value is a constant
ConstInputs ==
  /\ \A i \in 1 .. mgRes.size : MergeList[i].val.op = "ConI"
  /\ mgRes.merged.val.op = "ConL" /\ mgRes.merged.val.rev = ""

ShiftOf(v) == IF v.op = "Node" THEN 0 ELSE v.sh

\* the stores of the list hold the right shifts of one base value by 0,
\* bits, 2 * bits, ..., in ascending or in descending order of address
ShiftedInputs(base) ==
  LET bits == 8 * memory_size(MergeList[1].opc)
  IN /\ \A i \in 1 .. mgRes.size :
          /\ MergeList[i].val.op \in ShiftOps \cup {"Node"}
          /\ MergeList[i].val.base = base.base
     /\ \/ \A i \in 1 .. mgRes.size : ShiftOf(MergeList[i].val) = (i - 1) * bits
        \/ \A i \in 1 .. mgRes.size :
             ShiftOf(MergeList[i].val) = (mgRes.size - i) * bits

\* the lowest address holds the least significant part of the base
AscendingShifts == ShiftOf(MergeList[mgRes.size].val) = 0

ExampleChain ==
  /\ Len(mgChain) = 4
  /\ \A i \in 1 .. 4 :
       /\ mgChain[i].opc = "StoreB" /\ mgChain[i].off = 4 - i
       /\ mgChain[i].ctl = mgChain[1].ctl
       /\ mgChain[i].outcnt = IF i = 1 THEN 0 ELSE 1
       /\ mgChain[i].val = IF i = 4 THEN BaseNode("X")
                           ELSE ShiftNode("RShiftI", "X", 8 * (4 - i))
  /\ mgRes.op = "run" /\ mgRes.at = 1

(***************************************************************************)
(* C20 (as claimed): when MergePrimitiveStores merges stores, the merged   *)
(* store writes at each position the bytes the narrow store wrote; the     *)
(* inputs are constants and the merged value is a constant, or they are    *)
(* the consecutive right shifts of one base value and the merged value is  *)
(* that base value; byte stores of v, v>>8, v>>16, v>>24 at offsets 0..3   *)
(* become one 32-bit store of v.                                           *)
(***************************************************************************)
C20_MergedIsBase ==
  /\ Merged =>
       /\ SameBytes
       /\ \/ mgRes.order = "Const" /\ ConstInputs
          \/ /\ mgRes.order # "Const"
             /\ ShiftedInputs(BaseNode(MergeList[1].val.base))
             /\ [mgRes.merged.val EXCEPT !.conv = FALSE] = BaseNode(MergeList[1].val.base)
  /\ ExampleChain =>
       /\ mgRes.size = 4
       /\ mgRes.merged.opc = "StoreI" /\ mgRes.merged.off = 0
       /\ mgRes.merged.val = BaseNode("X")

(***************************************************************************)
(* C20 (amended): when MergePrimitiveStores merges stores, the merged      *)
(* store writes at each position the bytes the narrow store wrote.  The    *)
(* inputs are constants and the merged value is a constant; or they are    *)
(* the consecutive right shifts of one base value in platform order, and   *)
(* the merged value is that base value; or they are byte stores of the     *)
(* consecutive right shifts in reverse order, on a platform that matches   *)
(* ReverseBytes, and the merged value is the byte-reversed base value.     *)
(* Byte stores of v, v>>8, v>>16, v>>24 at offsets 0..3 become one 32-bit  *)
(* store of v on a little-endian platform; on a big-endian platform they   *)
(* become one 32-bit store of the byte-reversed v, or stay as they are     *)
(* when ReverseBytes is not matched.                                       *)
(***************************************************************************)
C20_MergedBytes ==
  /\ Merged =>
       /\ SameBytes
       /\ \/ mgRes.order = "Const" /\ ConstInputs
          \/ /\ mgRes.order = "Platform"
             /\ ShiftedInputs(BaseNode(MergeList[1].val.base))
             /\ AscendingShifts = mgPlat.little
             /\ [mgRes.merged.val EXCEPT !.conv = FALSE] = BaseNode(MergeList[1].val.base)
          \/ /\ mgRes.order = "Reverse"
             /\ mgPlat.reverse /\ MergeList[1].opc = "StoreB"
             /\ ShiftedInputs(BaseNode(MergeList[1].val.base))
             /\ AscendingShifts # mgPlat.little
             /\ mgRes.merged.val.rev = (CASE mgRes.size = 2 -> "S"
                                          [] mgRes.size = 4 -> "I"
                                          [] mgRes.size = 8 -> "L")
             /\ [mgRes.merged.val EXCEPT !.conv = FALSE, !.rev = ""]
                = BaseNode(MergeList[1].val.base)
  /\ ExampleChain =>
       /\ mgPlat.little =>
            /\ mgRes.size = 4
            /\ mgRes.merged.opc = "StoreI" /\ mgRes.merged.off = 0
            /\ mgRes.merged.val = BaseNode("X")
       /\ ~mgPlat.little /\ mgPlat.reverse =>
            /\ mgRes.size = 4
            /\ mgRes.merged.opc = "StoreI" /\ mgRes.merged.off = 0
            /\ mgRes.merged.val = [BaseNode("X") EXCEPT !.rev = "I"]
       /\ ~mgPlat.little /\ ~mgPlat.reverse => mgRes.size = 0

\* the four byte stores of the example were merged on a little-endian platform
C20_Witness ==
  /\ ExampleChain /\ mgPlat.little
  /\ Merged /\ mgRes.size = 4
  /\ mgRes.merged.val = BaseNode("X")

\* four constant byte stores were merged into one constant store
C20_WitnessConst ==
  /\ Merged /\ mgRes.size = 4 /\ mgRes.order = "Const"
  /\ mgRes.merged.opc = "StoreI"

\* two int stores of the halves of a long were merged into one long store
C20_WitnessLong ==
  /\ Merged /\ mgRes.size = 2 /\ mgRes.merged.opc = "StoreL"
  /\ mgRes.merged.val = BaseNode("L")

\* byte stores in reverse order were merged into a store of the reversed value
C20_WitnessReverse ==
  /\ Merged /\ mgRes.order = "Reverse" /\ mgRes.size = 4
  /\ mgRes.merged.val.rev = "I"

(***************************************************************************)
(* C21: a run of MergePrimitiveStores collects at least 2 and at most      *)
(* 8 / memory_size stores, merges 2, 4 or 8 of them, the largest power of  *)
(* two that is not above the number collected, and these are the stores    *)
(* nearest to the last store: the merged store starts where the farthest   *)
(* of them started and is as wide as all of them, never wider than 8       *)
(* bytes.                                                                  *)
(***************************************************************************)
C21_PowerOfTwo ==
  mgRes.op = "run" /\ mgRes.found # 0 =>
    LET size == memory_size(mgChain[mgRes.at].opc)
    IN /\ mgRes.found >= 2
       /\ mgRes.found * size <= 8
       /\ mgRes.at + mgRes.found - 1 <= Len(mgChain)
       /\ Merged =>
            /\ mgRes.size \in {2, 4, 8}
            /\ mgRes.size <= mgRes.found /\ mgRes.found < 2 * mgRes.size
            /\ mgRes.merged.off = mgChain[mgRes.at + mgRes.size - 1].off
            /\ memory_size(mgRes.merged.opc) = mgRes.size * size
            /\ memory_size(mgRes.merged.opc) <= 8
            /\ mgRes.merged.opc =
                 (CASE mgRes.size * size = 2 -> "StoreC"
                    [] mgRes.size * size = 4 -> "StoreI"
                    [] mgRes.size * size = 8 -> "StoreL")

\* seven byte stores were collected and the four nearest ones merged
C21_Witness ==
  /\ Merged /\ mgRes.found = 7 /\ mgRes.size = 4
  /\ mgRes.merged.opc = "StoreI" /\ mgRes.merged.off = 4

\* eight byte stores were merged into one long store
C21_WitnessEight ==
  /\ Merged /\ mgRes.found = 8 /\ mgRes.size = 8 /\ mgRes.merged.opc = "StoreL"

\* of three int stores two were collected: the merge list was full
C21_WitnessFull ==
  /\ Merged /\ Len(mgChain) >= 3 /\ mgChain[3].opc = "StoreI"
  /\ mgChain[3].val.op = "ConI" /\ mgChain[2].val.op = "ConI"
  /\ mgChain[1].val.op = "ConI" /\ mgRes.found = 2

(***************************************************************************)
(* C22: a store that StoreNode::Ideal hands to the Initialize is captured  *)
(* only if its control is the control projection of that Initialize, its   *)
(* memory input is the memory projection of that Initialize, its address   *)
(* is a constant offset into the allocation of that Initialize, the        *)
(* offset is a multiple of the size of the store, and the offset is at or  *)
(* beyond the header of the object and below the tracking limit.           *)
(***************************************************************************)
C22_CapturedOnlyIf ==
  (stRes.op = "Ideal" /\ stRes.captured) =>
    /\ stRes.ctl = "InitCtl"
    /\ stRes.before[1].n.kind = "InitProj"
    /\ Ideal_allocation(stTop.base) = stRes.before[1].n.base
    /\ stTop.off # OffsetBot
    /\ stTop.off % memory_size(stTop.opc) = 0
    /\ stTop.off >= minimum_header_size
    /\ stTop.off < TrackedInitializationLimit * HeapWordSize

\* a store is captured
C22_Witness ==
  /\ stRes.op = "Ideal" /\ stRes.captured
  /\ stTop = StoreNode("A", 16, "StoreI", intcon(0), FALSE)
  /\ stRes.before[1].n.init.stores # <<>>

\* a store behind the barrier is refused for its control alone
C22_WitnessControl ==
  /\ stRes.op = "Ideal" /\ ~stRes.captured /\ stRes.removed = 0
  /\ stRes.ctl = "IfTrue"
  /\ stRes.before[1].n.kind = "InitProj" /\ ~stRes.before[1].n.init.complete
  /\ stTop = StoreNode("A", 16, "StoreI", intcon(0), FALSE)

\* a store at the tracking limit is refused by capture_store
C22_WitnessLimit ==
  /\ stRes.op = "Ideal" /\ ~stRes.captured /\ stRes.ctl = "InitCtl"
  /\ stRes.before[1].n.kind = "InitProj" /\ ~stRes.before[1].n.init.complete
  /\ stTop = StoreNode("A", 48, "StoreI", intcon(5), FALSE)

(***************************************************************************)
(* C23: when the Initialize above a store refuses it (can_capture_store    *)
(* returns 0 or capture_store finds no insertion point), the captured      *)
(* stores of the Initialize and the whole chain of memory states are as    *)
(* they were, the store still has that chain as its memory input, and      *)
(* Ideal reports no change.                                                *)
(***************************************************************************)
C23_RefusedUnchanged ==
  (/\ stRes.op = "Ideal"
   /\ stRes.before[1].n.kind = "InitProj"
   /\ ~stRes.captured
   /\ stRes.removed = 0) =>
    /\ stMem = stRes.before
    /\ stMem[1].n.init = stRes.before[1].n.init
    /\ ~stRes.progress

\* can_capture_store refuses a store below a branch, over an Initialize that
\* holds a captured store
C23_Witness ==
  /\ stRes.op = "Ideal" /\ ~stRes.captured /\ stRes.removed = 0
  /\ stRes.ctl = "IfTrue"
  /\ stRes.before[1].n.kind = "InitProj"
  /\ stRes.before[1].n.init.stores # <<>>
  /\ stTop = StoreNode("A", 12, "StoreI", intcon(0), FALSE)

\* capture_store finds no insertion point: the Initialize is complete
C23_WitnessComplete ==
  /\ stRes.op = "Ideal" /\ ~stRes.captured /\ stRes.removed = 0
  /\ stRes.ctl = "InitCtl"
  /\ stRes.before[1].n.kind = "InitProj" /\ stRes.before[1].n.init.complete
  /\ stTop = StoreNode("A", 12, "StoreI", intcon(5), FALSE)

\* a captured store of a constant narrower than an int, straight over the
\* zero memory
SubwordConstant(s) ==
  /\ s.kind = "Store"
  /\ s.val.con
  /\ memory_size(s.opc) < BytesPerInt
  /\ s.under = <<>>

\* a store of the list coalesce_subword_stores left that took the place of a
\* sub-word constant store of the list it was given
IsTile(t, before) ==
  /\ t.kind = "Store"
  /\ t.opc \in {"StoreI", "StoreL"}
  /\ \E i \in 1 .. Len(before) :
        SubwordConstant(before[i]) /\ Extent(before[i]) \subseteq Extent(t)

\* a captured store of a constant writes the byte at offset b
ConstCovered(b, before) ==
  \E i \in 1 .. Len(before) :
     before[i].kind = "Store" /\ before[i].val.con /\ b \in Extent(before[i])

\* the int-sized word a store lies in
WordOf(s) ==
  align_down(s.off, BytesPerInt) .. (align_down(s.off, BytesPerInt) + BytesPerInt - 1)

PlainConstant(s) == s.kind = "Store" /\ s.val.con /\ s.under = <<>>

Coalesced ==
  /\ initLast.op = "complete_stores"
  /\ initFlags.ReduceFieldZeroing \/ initFlags.ReduceBulkZeroing

C24_WitnessAlone ==
  /\ Coalesced
  /\ Len(remove_extra_zeroes(initLast.before)) = 1
  /\ SubwordConstant(remove_extra_zeroes(initLast.before)[1])
  /\ Len(initLast.tiled) = 1
  /\ initLast.tiled[1].opc = "StoreI"

C25_WitnessInt ==
  /\ ldRes.op = "Value"
  /\ ld.opc = "LoadI"
  /\ Seen = intcon(-2147483647 - 1)
  /\ ldRes.type = [lo |-> -2147483647 - 1, hi |-> -2147483647 - 1]

\* an unsigned byte load of fresh memory has the type of zero
C25_WitnessZero ==
  /\ ldRes.op = "Value"
  /\ ld.opc = "LoadUB"
  /\ ldMem[1] = zero_memory("A")
  /\ ldRes.type = [lo |-> 0, hi |-> 0]

(***************************************************************************)
(* MemNode::Ideal_common up to the wait for the address.  The memory node  *)
(* "this" has the control "ctl" (nullptr, a control that does not come     *)
(* from a test, the projection of an If whose test is the Bool "bol" over  *)
(* "cmp", a Region that is a copy, or top), the memory input "mem" (top    *)
(* when dead) and the address "adr", whose type is the type of the node's  *)
(* adr_type, another pointer type, the null pointer or top.  The worklist  *)
(* holds names of these nodes.                                             *)
(***************************************************************************)
IcNames == {"ctl", "bol", "cmp", "mem", "adr", "this"}

IcNodes ==
  { n \in [ctl : {"none", "Proj", "IfTrue", "copy", "top"}, mem : {"mem", "top"},
           adr : {"ok", "retyped", "NULL", "TOP"}, unsafe : BOOLEAN] :
      /\ n.unsafe => n.ctl # "none"
      /\ n.adr = "NULL" => n.unsafe }

\* what Ideal_common returns, the nodes it found on the worklist, whether it
\* pushed the node, and the node afterwards
IcReturn(result, waits, push, n) ==
  [result |-> result, waits |-> waits, push |-> push, node |-> n]

\* the control, or the test feeding it, that is on the worklist
ControlOnWorklist(n, wl) ==
  IF n.ctl = "IfTrue" THEN {"ctl", "bol", "cmp"} \cap wl ELSE {"ctl"} \cap wl

Ideal_common_noPush(n, wl, can_reshape) ==
  IF n.ctl = "copy"
  THEN IcReturn("this", {}, FALSE, [n EXCEPT !.ctl = "Proj"])
  ELSE IF n.ctl = "top" THEN IcReturn("NodeSentinel", {}, FALSE, n)
  ELSE IF n.ctl # "none" /\ can_reshape /\ ControlOnWorklist(n, wl) # {}
  THEN IcReturn("NodeSentinel", ControlOnWorklist(n, wl), FALSE, n)
  ELSE IF n.mem = "top" THEN IcReturn("NodeSentinel", {}, FALSE, n)
  ELSE IF can_reshape /\ "mem" \in wl
  THEN IcReturn("NodeSentinel", {"mem"}, FALSE, n)
  ELSE IF n.adr = "TOP" THEN IcReturn("NodeSentinel", {}, FALSE, n)
  ELSE IF can_reshape /\ n.unsafe /\ n.adr = "NULL"
  THEN IcReturn("this", {}, FALSE, [n EXCEPT !.ctl = "top"])
  ELSE IF can_reshape /\ ("adr" \in wl \/ (wl # {} /\ n.adr = "retyped"))
  THEN IcReturn("NodeSentinel", {"adr"} \cap wl, FALSE, n)
  ELSE IcReturn("nullptr", {}, FALSE, n)

\* can_reshape stands for can_reshape && igvn != nullptr
Ideal_common(n, wl, can_reshape) ==
  IF n.ctl = "copy"
  THEN IcReturn("this", {}, FALSE, [n EXCEPT !.ctl = "Proj"])
  ELSE IF n.ctl = "top" THEN IcReturn("NodeSentinel", {}, FALSE, n)
  ELSE IF n.ctl # "none" /\ can_reshape /\ ControlOnWorklist(n, wl) # {}
  THEN IcReturn("NodeSentinel", ControlOnWorklist(n, wl), TRUE, n)
  ELSE IF n.mem = "top" THEN IcReturn("NodeSentinel", {}, FALSE, n)
  ELSE IF can_reshape /\ "mem" \in wl
  THEN IcReturn("NodeSentinel", {"mem"}, TRUE, n)
  ELSE IF n.adr = "TOP" THEN IcReturn("NodeSentinel", {}, FALSE, n)
  ELSE IF can_reshape /\ n.unsafe /\ n.adr = "NULL"
  THEN IcReturn("this", {}, FALSE, [n EXCEPT !.ctl = "top"])
  ELSE IF can_reshape /\ ("adr" \in wl \/ (wl # {} /\ n.adr = "retyped"))
  THEN IcReturn("NodeSentinel", {"adr"} \cap wl, TRUE, n)
  ELSE IcReturn("nullptr", {}, FALSE, n)

(***************************************************************************)
(* The worklist machine.  Other transformations push nodes; IGVN takes a   *)
(* node off the worklist and transforms it, until the worklist is empty.   *)
(* The transformation of an input of the memory node may leave it as it    *)
(* was, or find it dead (top) or give the address its final type, and then *)
(* the memory node, a user of the input, is pushed.  The transformation of *)
(* the memory node runs Ideal_common; a node that Ideal returned is        *)
(* transformed again.                                                      *)
(***************************************************************************)
MaxPushes == 3

\* another transformation pushes the node x
IcPush(x) ==
  /\ icNode # NoIcNode
  /\ icPushes < MaxPushes
  /\ x \notin worklist
  /\ worklist' = worklist \cup {x}
  /\ icPushes' = icPushes + 1
  /\ UNCHANGED <<icNode, icRes, stMem, stTop, stRes, mgVars, mmVars, ldVars, initVars>>

\* what the transformation of the input x can make of the memory node
IcOutcomes(n, x) ==
  {n} \cup
  (IF x = "ctl" /\ n.ctl \in {"Proj", "IfTrue"} THEN {[n EXCEPT !.ctl = "top"]} ELSE {}) \cup
  (IF x = "mem" /\ n.mem = "mem" THEN {[n EXCEPT !.mem = "top"]} ELSE {}) \cup
  (IF x = "adr" /\ n.adr = "retyped" THEN {[n EXCEPT !.adr = "ok"]} ELSE {})

IcTransform(x, after) ==
  /\ x \in worklist /\ x # "this"
  /\ after \in IcOutcomes(icNode, x)
  /\ icNode' = after
  /\ worklist' = (worklist \ {x}) \cup (IF after # icNode THEN {"this"} ELSE {})
  /\ icRes' = [icRes EXCEPT !.seen = IF icRes.waits # {} THEN @ \cup {x} ELSE @]
  /\ UNCHANGED <<icPushes, stMem, stTop, stRes, mgVars, mmVars, ldVars, initVars>>

\* IGVN takes the memory node off the worklist (can_reshape), or the parser
\* transforms it (the worklist plays no part).  icRes keeps whether the node
\* pushed itself when IGVN last transformed it, the nodes it found on the
\* worklist then, and the nodes transformed since.
IcIdeal(can_reshape) ==
  /\ icNode # NoIcNode
  /\ can_reshape => "this" \in worklist
  /\ LET wl == IF can_reshape THEN worklist \ {"this"} ELSE worklist
         r  == Ideal_common(icNode, wl, can_reshape)
     IN /\ icNode' = r.node
        /\ worklist' = wl \cup (IF r.push \/ (can_reshape /\ r.result = "this")
                                THEN {"this"} ELSE {})
        /\ icRes' = [op |-> IF can_reshape THEN "Ideal" ELSE "parse",
                     result |-> r.result,
                     pushed |-> IF can_reshape THEN r.push ELSE icRes.pushed,
                     waits |-> IF can_reshape THEN r.waits ELSE icRes.waits,
                     seen |-> IF can_reshape THEN {} ELSE icRes.seen,
                     before |-> icNode]
  /\ UNCHANGED <<icPushes, stMem, stTop, stRes, mgVars, mmVars, ldVars, initVars>>

IcInit ==
  /\ icNode \in IcNodes
  /\ worklist = {}
  /\ icRes = NoIcRes
  /\ icPushes = 0
  /\ stMem = <<>> /\ stTop = NullNode /\ stRes = NoStRes /\ MgIdle
  /\ LdIdle /\ MMIdle /\ InitIdle

IcNext ==
  \/ \E x \in IcNames : IcPush(x)
  \/ \E x \in IcNames \ {"this"} : \E after \in IcNodes : IcTransform(x, after)
  \/ \E can_reshape \in BOOLEAN : IcIdeal(can_reshape)

SpecWorklist == IcInit /\ [][IcNext]_vars

\* IGVN runs until the worklist is empty and reaches every node on it
SpecWorklistFair ==
  /\ SpecWorklist
  /\ WF_vars(IcIdeal(TRUE))
  /\ \A x \in IcNames \ {"this"} : WF_vars(\E after \in IcNodes : IcTransform(x, after))

(***************************************************************************)
(* C26: when Ideal_common, run by IGVN, finds the control of the node (or  *)
(* the Bool or the Cmp of the test feeding it), its memory input or its    *)
(* address on the worklist, it pushes the node, returns NodeSentinel and   *)
(* leaves the inputs of the node as they were; a node that pushed itself   *)
(* stays on the worklist until IGVN transforms it again; when that         *)
(* transformation gets past the waits, every node it had found on the      *)
(* worklist has been transformed in between; and a node that pushed itself *)
(* is in the end transformed without pushing itself again.                 *)
(***************************************************************************)
C26_DeferredAndRetried ==
  /\ [][(IcIdeal(TRUE) /\ icRes'.waits # {}) =>
          /\ "this" \in worklist'
          /\ icNode' = icNode
          /\ icRes'.result = "NodeSentinel"]_vars
  /\ [](icRes.pushed => "this" \in worklist)
  /\ [][(IcIdeal(TRUE) /\ icRes'.result = "nullptr") =>
          icRes.waits \subseteq icRes.seen]_vars
  /\ (icRes.pushed ~> ~icRes.pushed)

\* the node waited for its control and for its address in turn, both were
\* transformed, and then Ideal_common went on
C26_Witness ==
  /\ icRes.op = "Ideal" /\ icRes.result = "nullptr"
  /\ icNode.ctl = "IfTrue" /\ icNode.adr = "ok"
  /\ worklist = {}
  /\ icPushes = 3

\* the node has pushed itself for the test of its control
C26_WitnessDeferred ==
  /\ icRes.op = "Ideal" /\ icRes.pushed /\ icRes.waits = {"bol"}
  /\ worklist = {"bol", "this"}

\* the node has pushed itself for its memory input, which has been
\* transformed since
C26_WitnessSeen ==
  /\ icRes.pushed /\ icRes.waits = {"mem"} /\ icRes.seen = {"mem"}
  /\ worklist = {"this"}

(***************************************************************************)
(* LoadNode::Ideal, steps (c) and (d): the load is rewired to the memory   *)
(* state find_previous_store returned when that is not its memory input    *)
(* already and can_see_stored_value sees a value in it.                    *)
(***************************************************************************)
\* the chain above chain[at]; in a cyclic chain the states nearer than at
\* are still above it, behind the last state
Rewired(chain, at) ==
  IF chain[Len(chain)].kind = "LoopBack" /\ Len(chain) - chain[Len(chain)].off < at
  THEN SubSeq(chain, at, Len(chain) - 1)
       \o SubSeq(chain, Len(chain) - chain[Len(chain)].off, at - 1)
       \o <<chain[Len(chain)]>>
  ELSE SubSeq(chain, at, Len(chain))

\* the Oracle model of aliasing: rewire to whatever the walk found
LoadIdeal_oracle(l, chain) ==
  LET prev_mem == find_previous_store(l, chain)
  IN IF prev_mem.node # NullNode /\ prev_mem.at # 1
     THEN [chain |-> Rewired(chain, prev_mem.at), progress |-> TRUE]
     ELSE [chain |-> chain, progress |-> FALSE]

LoadIdeal(l, chain) ==
  LET prev_mem == find_previous_store(l, chain)
  IN IF prev_mem.node # NullNode /\ prev_mem.at # 1 /\
        can_see_stored_value(l, prev_mem.node) # NoVal
     THEN [chain |-> Rewired(chain, prev_mem.at), progress |-> TRUE]
     ELSE [chain |-> chain, progress |-> FALSE]

\* a load is made over the chain and Ideal runs on it; ldRes keeps what
\* find_previous_store returned and whether Ideal returned the load
Ideal(l) ==
  /\ ldMem # <<>>
  /\ ld \in {NoLoad, l}
  /\ ld' = l
  /\ ldMem' = LoadIdeal(l, ldMem).chain
  /\ ldRes' = [NoRes EXCEPT !.op = "Ideal",
                            !.fps = find_previous_store(l, ldMem),
                            !.node = [self |-> LoadIdeal(l, ldMem).progress,
                                      val |-> NoVal]]
  /\ UNCHANGED <<mmVars, initVars, stVars>>

IdealProjs ==
  FPSProjs \cup {ProjNode("InitProj", "A", [complete |-> TRUE, stores |-> <<>>])}

IdealNext ==
  \/ \E st \in FPSStores : EmitMem(st)
  \/ \E p \in IdealProjs : EmitMem(p)
  \/ \E k \in 1 .. MaxChain : CloseCycle(k)
  \/ \E l \in FPSLoads : Ideal(l)

SpecLoadIdeal == FPSInit /\ [][IdealNext]_vars

(***************************************************************************)
(* C27: LoadNode::Ideal changes the memory input of a load only to the     *)
(* state find_previous_store returned, and only when can_see_stored_value  *)
(* sees a value for the load in that state; when the walk went past        *)
(* stores and ended in a state the load sees no value in, or in none, the  *)
(* memory input of the load is what it was.                                *)
(***************************************************************************)
C27_RewiredOnlyToFold ==
  [][ldRes'.op = "Ideal" =>
       /\ ldMem' # ldMem =>
            /\ find_previous_store(ld', ldMem).node = ldMem'[1]
            /\ can_see_stored_value(ld', ldMem'[1]) # NoVal
       /\ (\/ find_previous_store(ld', ldMem).node = NullNode
           \/ can_see_stored_value(ld', find_previous_store(ld', ldMem).node) = NoVal)
          => ldMem' = ldMem]_vars

\* the load went past one store and is now on the store it folds against
C27_Witness ==
  /\ ldRes.op = "Ideal" /\ ldRes.node.self
  /\ ldRes.fps.at = 2 /\ ldRes.fps.walked = {1}
  /\ ldRes.fps.node.kind = "Store"
  /\ ldMem = <<ldRes.fps.node>>

\* the walk went past one store to a store at the address of the load that
\* the load cannot fold against, and the load stayed where it was
C27_WitnessKept ==
  /\ ldRes.op = "Ideal" /\ ~ldRes.node.self
  /\ ldRes.fps.at = 2 /\ ldRes.fps.walked = {1}
  /\ Len(ldMem) = 2 /\ ldMem[2] = ldRes.fps.node
  /\ can_see_stored_value(ld, ldMem[2]) = NoVal

\* the pair of the stores at positions i and i + 1 of the chain is separated
\* by a test
Separated(i) == mgChain[i].ctl # mgChain[i + 1].ctl

(***************************************************************************)
(* C28: in every group of stores that MergePrimitiveStores merges, each    *)
(* earlier store of a pair has no use but the later store, or one more use *)
(* that is the MergeMem of the uncommon trap of a RangeCheck lying right   *)
(* between the controls of the two stores; the collected stores end with   *)
(* the first pair that a RangeCheck separates, so at most one pair of the  *)
(* merged group is separated, and by a RangeCheck.                         *)
(***************************************************************************)
C28_OnlyRangeCheckBetween ==
  (mgRes.op = "run" /\ mgRes.found # 0) =>
    /\ \A i \in mgRes.at .. (mgRes.at + mgRes.found - 2) :
         /\ \/ mgChain[i + 1].outcnt = 1 /\ ~Separated(i)
            \/ /\ mgChain[i + 1].outcnt = 2 /\ mgChain[i + 1].trap
               /\ mgChain[i].rc /\ Separated(i)
         /\ Separated(i) => i = mgRes.at + mgRes.found - 2
    /\ Merged =>
         Cardinality({i \in mgRes.at .. (mgRes.at + mgRes.size - 2) : Separated(i)}) <= 1

\* two stores were merged across a RangeCheck, and the chain goes on behind
\* them with a store that a second RangeCheck separates
C28_Witness ==
  /\ Merged /\ mgRes.at = 1 /\ mgRes.size = 2 /\ mgRes.found = 2
  /\ Len(mgChain) = 4
  /\ Separated(1) /\ mgChain[1].rc
  /\ Separated(2) /\ mgChain[2].rc
  /\ \A i \in 1 .. 4 : mgChain[i].opc = "StoreB"

\* a store whose value is used elsewhere as well ends the group
C28_WitnessUsed ==
  /\ Merged /\ mgRes.at = 1 /\ mgRes.size = 2 /\ mgRes.found = 2
  /\ Len(mgChain) = 3
  /\ mgChain[3].outcnt = 2 /\ ~mgChain[3].trap
  /\ \A i \in 1 .. 3 : mgChain[i].opc = "StoreB"

\* a test that is not a RangeCheck between two adjacent stores: no merge
C28_WitnessIf ==
  /\ mgRes.op = "run" /\ mgRes.at = 1 /\ mgRes.found = 0
  /\ Len(mgChain) = 2
  /\ Separated(1) /\ ~mgChain[1].rc /\ mgChain[2].trap
  /\ mgChain[1].off = mgChain[2].off + 1
  /\ mgChain[1].val.op = "RShiftI" /\ mgChain[2].val.op = "Node"

(***************************************************************************)
(* The value order of a merge.  _value_order is Unknown while run looks    *)
(* for the first pair, is assigned once from that pair, and is the order   *)
(* every further pair of the merge list is compared with.                  *)
(***************************************************************************)
\* the value order of the pair whose use store is at position i of the chain
PairOrder(i) ==
  find_adjacent_input_value_order(mgChain[i + 1].val, mgChain[i].val,
                                  memory_size(mgChain[i].opc), mgPlat.little)

\* the position of the last store the collection reached
LastCollected == mgRes.at + mgRes.found - 1

\* C29: the value order of a run is Unknown until the first pair is found
\* and then Const, Platform or Reverse, the order of that first pair; every
\* pair of the collected list and of the merged group has that order, and
\* the list does not reach past a pair of another order or a pair that is
\* not adjacent in memory.
C29_OneValueOrder ==
  mgRes.op = "run" =>
    /\ mgRes.found = 0 => mgRes.order = "Unknown"
    /\ mgRes.found # 0 =>
         /\ mgRes.order \in {"Const", "Platform", "Reverse"}
         /\ mgRes.order = PairOrder(mgRes.at)
         /\ mgRes.found >= 2
    /\ \A i \in mgRes.at .. LastCollected - 1 : PairOrder(i) = mgRes.order
    /\ \A i \in mgRes.at .. Len(mgChain) - 1 :
         mgRes.found # 0 /\
         (\/ PairOrder(i) # mgRes.order
          \/ ~is_adjacent_to_and_before(mgChain[i + 1], mgChain[i]))
         => LastCollected <= i
    /\ mgRes.size # 0 =>
         \A i \in mgRes.at .. mgRes.at + mgRes.size - 2 : PairOrder(i) = mgRes.order

\* a pair of another order right behind the collected list ended the chain
C29_Witness ==
  /\ mgRes.op = "run" /\ mgRes.size # 0
  /\ mgRes.found * memory_size(mgChain[mgRes.at].opc) < 8
  /\ LastCollected < Len(mgChain)
  /\ PairOrder(LastCollected) \in {"Const", "Platform", "Reverse"} \ {mgRes.order}
  /\ is_adjacent_to_and_before(mgChain[LastCollected + 1], mgChain[LastCollected])
  /\ mgChain[LastCollected].outcnt = 1

\* four byte stores merged in Reverse order
C29_WitnessReverse ==
  /\ mgRes.op = "run" /\ mgRes.size = 4 /\ mgRes.order = "Reverse"

\* a pair that is not adjacent by its values ended a chain of constants
C29_WitnessNotAdjacent ==
  /\ mgRes.op = "run" /\ mgRes.size # 0 /\ mgRes.order = "Const"
  /\ LastCollected < Len(mgChain)
  /\ PairOrder(LastCollected) = "NotAdjacent"
  /\ is_adjacent_to_and_before(mgChain[LastCollected + 1], mgChain[LastCollected])

(***************************************************************************)
(* The lookup of a captured store.  The ranges asked for start anywhere in *)
(* the object, the header included, and have the size of a primitive.      *)
(***************************************************************************)
LookupStarts == 0 .. ObjectSize

LookupSizes == {1, 2, 4, BytesPerLong}

\* the positions of the captured stores among the inputs
Captured == { i \in 1 .. Len(initNode.stores) : initNode.stores[i].kind = "Store" }

Overlaps(st, start, size) ==
  st.off < start + size /\ start < st.off + memory_size(st.opc)

\* start is behind the header and below the limit of tracking
Tracked(start) ==
  start >= minimum_header_size /\ start < TrackedInitializationLimit * HeapWordSize

\* the three answers as the claim words them, for one range
LookupOfRange(start, size, inRange) ==
  LET r == find_captured_store(initNode, "A", start, size)
  IN /\ \A i \in Captured :
          initNode.stores[i].off = start /\ memory_size(initNode.stores[i].opc) = size
          => r = initNode.stores[i]
     /\ inRange /\ (\A i \in Captured : ~Overlaps(initNode.stores[i], start, size))
          => r = zmem
     /\ (\E i \in Captured :
           /\ Overlaps(initNode.stores[i], start, size)
           /\ initNode.stores[i].off # start \/ memory_size(initNode.stores[i].opc) # size)
          => r = NullNode

\* right after capture_store the lookup of the range of st gives the store
\* the capture left (the store, or what it folded into), and a capture at
\* an offset that held a store changes that one input only
PostCapture ==
  initLast'.op = "capture_store" /\ initLast'.ok =>
  \A st \in InitStores : \A other_use \in OtherUses(st) :
    CaptureStore(st, other_use) =>
      LET start == can_capture_store(st)
          r     == find_captured_store(initNode', "A", start, memory_size(st.opc))
      IN /\ \/ r.kind = "Store" /\ r.off = start /\ r.opc = st.opc /\ r.val = st.val
            \/ r = zmem /\ is_zero_type(st.val)
         /\ initLast'.ip = 1 =>
              /\ Len(initNode'.stores) = Len(initNode.stores)
              /\ \E i \in Captured :
                   /\ initNode.stores[i].off = start
                   /\ initNode'.stores[i] = r
                   /\ \A k \in 1 .. Len(initNode.stores) :
                        k # i => initNode'.stores[k] = initNode.stores[k]

\* captures, and the removal of folded edges, on the node of one allocation
\* under the default flags
CaptureInit == InitIdle /\ LdIdle /\ MMIdle /\ StIdle

CaptureNext ==
  \/ \E st \in InitStores : \E other_use \in OtherUses(st) : CaptureStore(st, other_use)
  \/ MaybeSetComplete

SpecCapture == CaptureInit /\ [][CaptureNext]_vars

\* C30 as stated: on an incomplete node find_captured_store(start, size)
\* gives the captured store at start of that size, the zero memory when no
\* captured store overlaps the range, and no answer when a captured store
\* overlaps from another offset or with another size; right after a capture
\* the lookup gives the new store, and a second capture at an offset
\* replaces the first.
C30_LookupAnswers ==
  /\ [](~initNode.complete =>
          \A start \in LookupStarts : \A size \in LookupSizes :
            LookupOfRange(start, size, TRUE))
  /\ [][PostCapture]_vars

\* C30, amended: the zero memory is the answer for a range no captured store
\* overlaps only when start is at or behind the header and below
\* TrackedInitializationLimit words; for every other start there is no
\* answer.
C30_LookupTracked ==
  /\ [](~initNode.complete =>
          \A start \in LookupStarts : \A size \in LookupSizes :
            /\ LookupOfRange(start, size, Tracked(start))
            /\ ~Tracked(start) =>
                 find_captured_store(initNode, "A", start, size) = NullNode)
  /\ [][PostCapture]_vars

\* a second capture at an offset has just replaced the first, and the three
\* answers all occur
C30_Witness ==
  /\ ~initNode.complete
  /\ initLast.op = "capture_store" /\ initLast.ok /\ initLast.ip = 1
  /\ \E start \in LookupStarts : \E size \in LookupSizes :
       find_captured_store(initNode, "A", start, size).kind = "Store"
  /\ \E start \in LookupStarts : \E size \in LookupSizes :
       /\ Tracked(start)
       /\ find_captured_store(initNode, "A", start, size) = zmem
  /\ \E start \in LookupStarts : \E size \in LookupSizes :
       /\ Tracked(start)
       /\ find_captured_store(initNode, "A", start, size) = NullNode

\* no captured store overlaps a range in the header or at the limit
C30_WitnessUntracked ==
  /\ ~initNode.complete
  /\ Captured # {}
  /\ \E start \in LookupStarts : \E size \in LookupSizes :
       /\ ~Tracked(start)
       /\ \A i \in Captured : ~Overlaps(initNode.stores[i], start, size)
       /\ find_captured_store(initNode, "A", start, size) = NullNode

\* a store of zero into fresh memory folded away: the lookup of its range
\* gives the zero memory
C30_WitnessFolded ==
  /\ ~initNode.complete
  /\ initLast.op = "capture_store" /\ initLast.ok /\ initLast.ip = -1
  /\ \E i \in 1 .. Len(initNode.stores) : initNode.stores[i] = zmem
  /\ find_captured_store(initNode, "A", 20, 4) = zmem

====
